---------------------------- MODULE Spec2Model ----------------------------
(***************************************************************************)
(* pyslacker: the adaptive request controller                              *)
(* (src/pyslacker/core/adaptive_request_manager.py).                       *)
(*                                                                         *)
(* Durations (seconds, Python floats) are fixed-point integers in units of *)
(* 1e-4 s: 0.20 s is 2000, 1 s is 10000.  Sums and differences are exact   *)
(* on that grid.  The one place where the float rounding of a difference   *)
(* decides the control flow -- Retry-After minus the current delay being   *)
(* exactly the stabilize step -- takes the result `fr` the IEEE-754 double *)
(* subtraction gives there (just below, equal, just above the step).       *)
(*                                                                         *)
(* time() is an oracle: each reading is an input of the step that takes it,*)
(* not earlier than the newest sample of the batch.  Readings are whole    *)
(* seconds; they never mix with the durations above.                       *)
(***************************************************************************)
EXTENDS Integers, Sequences, FiniteSets, TLC

VARIABLES
    pc,                       \* "start" | "idle" | "loop" | "raised" | "sleeping"
    delay_adjustment_enabled, \* self._delay_adjustment_enabled
    post_req_delay,           \* self._post_req_delay
    req_num,                  \* self._req_num
    successive_req_num,       \* self._successive_req_num
    samples,                  \* self._samples, newest first
    rpm,                      \* self._rpm
    attempt_num,              \* local attempt_num of perform_retriable_request
    result,                   \* how the latest perform_retriable_request ended
    lastResp,                 \* the response the callback returned last
    calls,                    \* callback invocations in the current call
    callback,                 \* what the callback did in them: "none" yet,
                              \* "always_raises", "always_429_5s", or "other"
    fresh,                    \* the current call began on a freshly reinitialised controller
    trace,                    \* renderer hooks and _sleep()/sleep() calls of the latest step
    shifts,                   \* _shift_pre_request_delay calls of the latest step
    lastOp,                   \* name of the latest step
    fmt,                      \* a call of a formatting helper of util/io.py:
                              \* the function, its argument and its result
    renderer,                 \* the attributes of the RequestSequenceRenderer
    terminal,                 \* what the latest renderer call printed, and
                              \* the column the terminal's cursor is in
    caller                    \* where the renderer's caller is in its
                              \* sequence of hook calls

vars == <<pc, delay_adjustment_enabled, post_req_delay, req_num,
          successive_req_num, samples, rpm, attempt_num, result, lastResp,
          calls, callback, fresh, trace, shifts, lastOp, fmt,
          renderer, terminal, caller>>

-----------------------------------------------------------------------------
(* Program constants, in the units above.                                   *)

RETRY_MAX_NUM == 20
SAMPLES_MAX_LEN == 60
\* OPTIMIZING_THRESHOLD_MIN = 1.5 minutes, in tenths of a minute
OPTIMIZING_THRESHOLD_MIN == 15
\* the divisor of minutes_without_failures
REQUESTS_PER_MINUTE == 60
DELAY_POST_MIN_SEC == 0
DELAY_POST_REQUEST_INITIAL_SEC == DELAY_POST_MIN_SEC
DELAY_POST_REQUEST_STABILIZE_SEC == 2000
DELAY_POST_REQUEST_OPTIMIZE_SEC == 1000
\* [0.5] + [pow(1.2, i) + 10 * i for i in 0..19], rounded to 1e-4 s;
\* Python index i is index i + 1 here
DELAY_TRANSPORT_FAILURE_SEC ==
    << 5000, 10000, 112000, 214400, 317280, 420736, 524883, 629860, 735832,
       842998, 951598, 1061917, 1174301, 1289161, 1406993, 1528392, 1654070,
       1784884, 1921861, 2066233, 2219480 >>
DELAY_TRANSPORT_FAILURE_STATIC_SEC == 300000
\* abs_tol=1e-03 of the isclose() calls
ABS_TOL == 10
\* the 1 of `while seconds > 1`, `seconds -= 1`, `sleep(1)`
SLEEP_SLICE_SEC == 10000
\* the 5 of `len(samples) > 5`, the 60 of `60 * len(samples)`
RPM_MIN_SAMPLES == 5
SECONDS_PER_MINUTE == 60
HTTP_TOO_MANY_REQUESTS == 429
\* requests.Response.ok: status_code < 400
HTTP_FIRST_ERROR == 400

-----------------------------------------------------------------------------
(* Helpers.                                                                 *)

Max(a, b) == IF a >= b THEN a ELSE b
Abs(a) == IF a >= 0 THEN a ELSE -a
Sign(a) == IF a > 0 THEN 1 ELSE IF a < 0 THEN -1 ELSE 0

\* math.isclose(a, b, abs_tol=1e-03); the default rel_tol of 1e-09 is below
\* the grid for every duration of the model
IsClose(a, b) == Abs(a - b) <= ABS_TOL

Hook(h, a) == [h |-> h, a |-> a]

\* update_statistics(response_ok, size_b, rpm): the call with all three
\* arguments
StatsHook(ok, size, r) == [h |-> "update_statistics", a |-> size, ok |-> ok, rpm |-> r]

\* the hooks class RequestFlowInterace declares
RequestFlowInterace ==
    {"before_paginated_batch", "after_paginated_batch", "before_request",
     "before_request_attempt", "on_request_failure", "on_request_completion",
     "before_sleeping", "sleep_iterator", "after_sleeping"}

\* trace entries that are time.sleep() or self._sleep() calls, not renderer
\* calls; print_event_delay is the print_event() call of a delay change
SleepCalls == {"sleep", "_sleep"}

NoRpm == [known |-> FALSE, num |-> 0, den |-> 1]
ZeroRpm == [known |-> TRUE, num |-> 0, den |-> 1]

Response(status, size, ra) ==
    [status |-> status, ok |-> status < HTTP_FIRST_ERROR,
     size |-> size, retry_after |-> ra]
NoResponse == Response(0, 0, 0)

NoResult == [kind |-> "none", resp |-> NoResponse, err |-> "", calls |-> 0]

NoRetryAfter == -1

\* Retry-After values of the model: "5", "0.25" and "1"
FIVE_SECONDS == 50000
QUARTER_SECOND == 2500
ONE_SECOND == 10000

-----------------------------------------------------------------------------
(* The controller's methods, as operators on the fields they read.  Each    *)
(* returns the new field values, the renderer hooks and sleep() calls it    *)
(* issued (trace), and the exception it raised, if any (err).               *)

\* compute_rpm: the value is the exact fraction num/den
compute_rpm(s) ==
    IF Len(s) > RPM_MIN_SAMPLES
    THEN IF s[1] - s[Len(s)] = 0
         THEN [val |-> NoRpm, err |-> "ZeroDivisionError"]
         ELSE [val |-> [known |-> TRUE, num |-> SECONDS_PER_MINUTE * Len(s),
                        den |-> s[1] - s[Len(s)]],
               err |-> "none"]
    ELSE [val |-> NoRpm, err |-> "none"]

\* (mutant) popleft() for pop(): the newest sample is evicted
PushSample_EvictNewest(s, t) ==
    <<t>> \o (IF Len(s) >= SAMPLES_MAX_LEN THEN Tail(s) ELSE s)

\* the deque update of on_request_completion: pop() the oldest at capacity,
\* appendleft(time())
PushSample(s, t) ==
    <<t>> \o (IF Len(s) >= SAMPLES_MAX_LEN THEN SubSeq(s, 1, Len(s) - 1) ELSE s)

\* (mutant) > for >=
ThresholdReached_Strict(cnt) ==
    cnt * 10 > OPTIMIZING_THRESHOLD_MIN * REQUESTS_PER_MINUTE

\* minutes_without_failures >= OPTIMIZING_THRESHOLD_MIN, cross-multiplied
ThresholdReached(cnt) ==
    cnt * 10 >= OPTIMIZING_THRESHOLD_MIN * REQUESTS_PER_MINUTE

\* _sleep(seconds): the renderer ticks and time.sleep() calls it makes, whole
\* slices while more than a second is left, then the rest.  A step's trace
\* records the call as Hook("_sleep", seconds); this is what the call does.
\* The loop runs once for every k >= 0 with seconds - k > 1, each run a tick
\* with the seconds left and a sleep(1); the final sleep() gets what is left.
Sleep(seconds) ==
    LET runs == IF seconds > SLEEP_SLICE_SEC
                THEN (seconds - 1) \div SLEEP_SLICE_SEC
                ELSE 0
    IN  [i \in 1 .. 2 * runs + 1 |->
            IF i = 2 * runs + 1 THEN Hook("sleep", seconds - runs * SLEEP_SLICE_SEC)
            ELSE IF i % 2 = 1
                 THEN Hook("sleep_iterator", seconds - ((i - 1) \div 2) * SLEEP_SLICE_SEC)
                 ELSE Hook("sleep", SLEEP_SLICE_SEC)]

\* (mutant) the retry schedule is used in either mode
get_progressing_delay_on_failure_AlwaysSchedule(enabled, attempt) ==
    IF attempt + 1 \in DOMAIN DELAY_TRANSPORT_FAILURE_SEC
    THEN DELAY_TRANSPORT_FAILURE_SEC[attempt + 1]
    ELSE -1

\* _get_progressing_delay_on_failure; -1 stands for the IndexError of an
\* attempt number past the end of the list
get_progressing_delay_on_failure(enabled, attempt) ==
    IF enabled
    THEN IF attempt + 1 \in DOMAIN DELAY_TRANSPORT_FAILURE_SEC
         THEN DELAY_TRANSPORT_FAILURE_SEC[attempt + 1]
         ELSE -1
    ELSE DELAY_TRANSPORT_FAILURE_STATIC_SEC

\* (mutant) no clamp to DELAY_POST_MIN_SEC
set_post_req_delay_NoClamp(d, new_value) ==
    IF IsClose(d, new_value) THEN d ELSE new_value

set_post_req_delay(d, new_value) ==
    LET v == Max(DELAY_POST_MIN_SEC, new_value)
    IN  IF IsClose(d, v) THEN d ELSE v

\* _shift_pre_request_delay(delta).  eps is the sign of the float delta
\* where the exact delta is 0 (a rounding residue), 0 otherwise.
shift_pre_request_delay(d, delta, eps, by) ==
    LET sgn == IF delta # 0 THEN Sign(delta) ELSE eps
        nd  == set_post_req_delay(d, d + delta)
        rec(after, notified, skipped) ==
            [by |-> by, before |-> d, delta |-> delta, eps |-> eps,
             after |-> after, notified |-> notified, skipped |-> skipped]
    IN  IF sgn < 0 /\ IsClose(DELAY_POST_MIN_SEC, d)
        THEN [delay |-> d, trace |-> <<>>, err |-> "none",
              shifts |-> <<rec(d, FALSE, TRUE)>>]
        ELSE IF sgn = 0
        THEN \* int(delta / abs(delta)) with delta = 0.0
             [delay |-> nd, trace |-> <<>>, err |-> "ZeroDivisionError",
              shifts |-> <<rec(nd, FALSE, FALSE)>>]
        ELSE [delay |-> nd,
              trace |-> <<Hook("on_post_request_delay_update", sgn),
                          Hook("print_event_delay", nd)>>,
              err |-> "none",
              shifts |-> <<rec(nd, TRUE, FALSE)>>]

\* Where retry_after_sec - self._post_req_delay is exactly the stabilize
\* step, the sign of the double (retry_after_sec - delay) - 0.2: with the
\* delay at retry_after_sec - 0.2, as the first 429 leaves it,
\*   5.0 - 4.8 = 0.20000000000000018   (above: delta = 1.7e-16)
\*   0.25 - 0.04999999999999999 = 0.2  (equal: delta = 0.0)
\*   1.0 - 0.8 = 0.19999999999999996   (below: the flat step is taken)
\* and any of the three for a Retry-After value not listed.
FloatRounding(r, d) ==
    IF r - d # DELAY_POST_REQUEST_STABILIZE_SEC THEN {0}
    ELSE IF r = FIVE_SECONDS THEN {1}
    ELSE IF r = QUARTER_SECOND THEN {0}
    ELSE IF r = ONE_SECOND THEN {-1}
    ELSE {-1, 0, 1}

\* (mutant) the flat step is never taken
stabilize_delta_NoFlatStep(delta_with_response, fr) ==
    delta_with_response - DELAY_POST_REQUEST_STABILIZE_SEC

\* the shift _stabilize_flow asks for
stabilize_delta(delta_with_response, fr) ==
    IF delta_with_response + fr >= DELAY_POST_REQUEST_STABILIZE_SEC
    THEN delta_with_response - DELAY_POST_REQUEST_STABILIZE_SEC
    ELSE DELAY_POST_REQUEST_STABILIZE_SEC

stabilize_flow(enabled, d, cnt, retry_after_sec, fr) ==
    IF ~enabled
    THEN [delay |-> d, cnt |-> cnt, trace |-> <<>>, err |-> "none",
          shifts |-> <<>>]
    ELSE LET delta == stabilize_delta(retry_after_sec - d, fr)
             sh == shift_pre_request_delay(d, delta,
                       IF delta = 0 THEN fr ELSE 0, "stabilize")
         IN  [delay |-> sh.delay,
              cnt |-> IF sh.err = "none" THEN 0 ELSE cnt,
              trace |-> sh.trace, err |-> sh.err, shifts |-> sh.shifts]

\* (mutant) the throttle sleeps the delay Optimize found, not the one it left
optimize_flow_SleepBefore(enabled, d, cnt) ==
    IF ~enabled
    THEN [delay |-> d, cnt |-> cnt, trace |-> <<>>, err |-> "none",
          shifts |-> <<>>]
    ELSE IF ThresholdReached(cnt + 1)
    THEN LET sh == shift_pre_request_delay(d,
                       -DELAY_POST_REQUEST_OPTIMIZE_SEC, 0, "optimize")
         IN  [delay |-> sh.delay, cnt |-> 0,
              trace |-> sh.trace \o <<Hook("sleep", d)>>,
              err |-> sh.err, shifts |-> sh.shifts]
    ELSE [delay |-> d, cnt |-> cnt + 1, trace |-> <<Hook("sleep", d)>>,
          err |-> "none", shifts |-> <<>>]

optimize_flow(enabled, d, cnt) ==
    IF ~enabled
    THEN [delay |-> d, cnt |-> cnt, trace |-> <<>>, err |-> "none",
          shifts |-> <<>>]
    ELSE IF ThresholdReached(cnt + 1)
    THEN LET sh == shift_pre_request_delay(d,
                       -DELAY_POST_REQUEST_OPTIMIZE_SEC, 0, "optimize")
         IN  [delay |-> sh.delay, cnt |-> 0,
              trace |-> sh.trace \o <<Hook("sleep", sh.delay)>>,
              err |-> sh.err, shifts |-> sh.shifts]
    ELSE [delay |-> d, cnt |-> cnt + 1, trace |-> <<Hook("sleep", d)>>,
          err |-> "none", shifts |-> <<>>]

\* (mutant) the counter is left as it is
on_request_failure_KeepsCounter(enabled, cnt, attempt) ==
    LET delay == get_progressing_delay_on_failure(enabled, attempt)
    IN  IF delay < 0
        THEN [cnt |-> cnt, err |-> "IndexError",
              trace |-> <<Hook("on_request_failure", attempt)>>]
        ELSE [cnt |-> cnt, err |-> "none",
              trace |-> <<Hook("on_request_failure", attempt),
                          Hook("before_sleeping", delay)>>
                        \o <<Hook("_sleep", delay), Hook("after_sleeping", 0)>>]

\* on_request_failure(attempt_num, msg)
on_request_failure(enabled, cnt, attempt) ==
    LET delay == get_progressing_delay_on_failure(enabled, attempt)
    IN  IF delay < 0
        THEN [cnt |-> cnt, err |-> "IndexError",
              trace |-> <<Hook("on_request_failure", attempt)>>]
        ELSE [cnt |-> 0, err |-> "none",
              trace |-> <<Hook("on_request_failure", attempt),
                          Hook("before_sleeping", delay)>>
                        \o <<Hook("_sleep", delay), Hook("after_sleeping", 0)>>]

\* on_request_completion(response, response_size), reading time() as t
on_request_completion(enabled, d, cnt, s, r, resp, t) ==
    LET hooks == <<StatsHook(resp.ok, resp.size, r),
                   Hook("on_request_completion", resp.status)>>
        s2 == PushSample(s, t)
        rp == compute_rpm(s2)
        of == optimize_flow(enabled, d, cnt)
    IN  IF rp.err # "none"
        THEN [delay |-> d, cnt |-> cnt, samples |-> s2, rpm |-> r,
              trace |-> hooks, err |-> rp.err, shifts |-> <<>>]
        ELSE [delay |-> of.delay, cnt |-> of.cnt, samples |-> s2,
              rpm |-> rp.val, trace |-> hooks \o of.trace, err |-> of.err,
              shifts |-> of.shifts]

\* on_rate_limited_request_fail(retry_after_sec)
on_rate_limited_request_fail(enabled, d, cnt, retry_after_sec, fr) ==
    LET st == stabilize_flow(enabled, d, cnt, retry_after_sec, fr)
    IN  IF st.err # "none"
        THEN st
        ELSE [st EXCEPT !.trace = @ \o <<Hook("before_sleeping", retry_after_sec),
                                         Hook("_sleep", retry_after_sec + st.delay)>>]

\* (mutant) every non-ok response is retried
IsRateLimited_AnyError(resp) == ~resp.ok

\* `not response.ok and response.status_code == 429`
IsRateLimited(resp) == ~resp.ok /\ resp.status = HTTP_TOO_MANY_REQUESTS

-----------------------------------------------------------------------------
(* Bounds of the model and the inputs the environment draws from.           *)

\* requests per batch of Spec
MaxReq == 1
\* seconds between two readings of time()
ClockStep == 1
\* whether the caller passes a completion_fn
CompletionFns == {FALSE}
\* the Retry-After values a 429 carries
RetryAfters == {FIVE_SECONDS, QUARTER_SECOND}
Statuses == {200, 404}
BodySize == 10

\* what request_fn returns: a status that is not 429, or a 429 with or
\* without the Retry-After header
Responses ==
    {Response(st, BodySize, NoRetryAfter) : st \in Statuses}
    \cup {Response(HTTP_TOO_MANY_REQUESTS, BodySize, ra) :
              ra \in RetryAfters \cup {NoRetryAfter}}

\* no formatting helper has been called
NoFmt == [fn |-> "none", arg |-> <<>>, out |-> <<>>]

-----------------------------------------------------------------------------
(* State after AdaptiveRequestManager.__init__ (which ends in reinit()).    *)

(* The renderer after __init__, which ends in reinit(): no text on the live
   line, no statistics, an empty marker queue.  An optional number (None or
   a value) is a record; a value is the fraction num / den. *)
NoNumber == [known |-> FALSE, num |-> 0, den |-> 1]
Number(num, den) == [known |-> TRUE, num |-> num, den |-> den]

renderer_reinit(requests_estimated) ==
    [current_line_cache |-> <<>>,
     render_phase |-> 0,
     requests_estimated |-> requests_estimated,
     requests_successful |-> 0,
     request_num |-> 0,
     attempt_num |-> 0,
     request_url |-> <<>>,
     response_size_sum |-> 0,
     request_progress_perc |-> NoNumber,
     rpm_cached |-> NoNumber,
     minutes_left |-> NoNumber,
     cursor_x |-> 0,
     cursor_y_estim |-> 0,
     rpm_marker_queue |-> <<>>]

\* what RenderQueue.iterate returns for an empty queue: None
NoFragment == [text |-> <<>>, duration_sec |-> -1]

\* nothing printed yet, the terminal's cursor in the first column, no
\* fragment returned by the marker queue
NoOutput == [op |-> "init", out |-> <<>>, col |-> 0, columns |-> <<>>,
             returned |-> NoFragment]

\* the caller before its first batch
CallerIdle == [at |-> "idle", attempt |-> 0, ok |-> FALSE,
               status_code |-> <<>>, seconds_left |-> 0]

Init ==
    /\ pc = "start"
    /\ delay_adjustment_enabled = TRUE
    /\ post_req_delay = DELAY_POST_REQUEST_INITIAL_SEC
    /\ req_num = 0
    /\ successive_req_num = 0
    /\ samples = <<>>
    /\ rpm = ZeroRpm
    /\ attempt_num = 0
    /\ result = NoResult
    /\ lastResp = NoResponse
    /\ calls = 0
    /\ callback = "none"
    /\ fresh = TRUE
    /\ trace = <<Hook("reinit", 0)>>
    /\ shifts = <<>>
    /\ lastOp = "init"
    /\ fmt = NoFmt
    /\ renderer = renderer_reinit(NoNumber)
    /\ terminal = NoOutput
    /\ caller = CallerIdle

\* apply_app_args(args), called once at start-up; args.A switches the
\* adaptive mode off.  (args.x only stores _rpm_max, which nothing reads.)
ApplyAppArgs(A) ==
    /\ pc = "start"
    /\ pc' = "idle"
    /\ delay_adjustment_enabled' = IF A THEN FALSE ELSE delay_adjustment_enabled
    /\ trace' = <<>>
    /\ shifts' = <<>>
    /\ lastOp' = "apply_app_args"
    /\ UNCHANGED <<fmt, renderer, terminal, caller>>
    /\ UNCHANGED <<post_req_delay, req_num, successive_req_num, samples, rpm,
                   attempt_num, result, lastResp, calls, callback, fresh>>

\* reinit(), at the start of a batch
Reinit ==
    /\ pc = "idle"
    /\ req_num' = 0
    /\ successive_req_num' = 0
    /\ samples' = <<>>
    /\ rpm' = ZeroRpm
    /\ post_req_delay' =
           IF delay_adjustment_enabled
           THEN set_post_req_delay(post_req_delay, DELAY_POST_REQUEST_INITIAL_SEC)
           ELSE 0
    /\ trace' = <<Hook("reinit", 0)>>
    /\ shifts' = <<>>
    /\ lastOp' = "reinit"
    /\ UNCHANGED <<fmt, renderer, terminal, caller>>
    /\ UNCHANGED <<pc, delay_adjustment_enabled, attempt_num, result,
                   lastResp, calls, callback, fresh>>

\* the fields as reinit() leaves them
IsFresh ==
    /\ req_num = 0
    /\ successive_req_num = 0
    /\ samples = <<>>
    /\ rpm = ZeroRpm
    /\ post_req_delay = DELAY_POST_REQUEST_INITIAL_SEC

\* perform_retriable_request, up to the first evaluation of the loop test
PerformBegin ==
    /\ pc = "idle"
    /\ req_num' = req_num + 1
    /\ attempt_num' = 0
    /\ pc' = "loop"
    /\ result' = NoResult
    /\ calls' = 0
    /\ callback' = "none"
    /\ fresh' = IsFresh
    /\ trace' = <<Hook("before_request", req_num + 1)>>
    /\ shifts' = <<>>
    /\ lastOp' = "begin"
    /\ UNCHANGED <<fmt, renderer, terminal, caller>>
    /\ UNCHANGED <<delay_adjustment_enabled, post_req_delay, successive_req_num,
                   samples, rpm, lastResp>>

\* the rpm property reports None: isclose(0.0, self._rpm, abs_tol=1e-03);
\* so does compute_rpm for a short window
rpm_unknown(r) == ~r.known \/ r.num * 1000 <= r.den

\* where the loop goes after `continue`: the next iteration, or past the
\* loop to `raise RuntimeError('Max retry amount exceeded')`
LoopExhausted(attempt) == ~(attempt <= RETRY_MAX_NUM)

Raised(err, n) == [kind |-> "error", resp |-> NoResponse, err |-> err, calls |-> n]

\* one iteration of the loop in which request_fn raises
AttemptRaises ==
    /\ pc = "loop"
    /\ LET a == attempt_num + 1
           f == on_request_failure(delay_adjustment_enabled, successive_req_num, a)
       IN  /\ attempt_num' = a
           /\ successive_req_num' = f.cnt
           /\ trace' = <<Hook("before_request_attempt", a)>> \o f.trace
           /\ IF f.err # "none"
              THEN pc' = "raised" /\ result' = Raised(f.err, calls + 1)
              ELSE IF LoopExhausted(a)
              THEN pc' = "raised" /\ result' = Raised("RuntimeError", calls + 1)
              ELSE pc' = "loop" /\ result' = result
    /\ calls' = calls + 1
    /\ callback' = IF callback \in {"none", "always_raises"}
                   THEN "always_raises" ELSE "other"
    /\ shifts' = <<>>
    /\ lastOp' = "raises"
    /\ UNCHANGED <<fmt, renderer, terminal, caller>>
    /\ UNCHANGED <<delay_adjustment_enabled, post_req_delay, req_num, samples,
                   rpm, lastResp, fresh>>

\* one iteration of the loop in which request_fn returns resp; t is the
\* reading of time(), fr the float rounding (see FloatRounding), cf whether
\* the caller passed a completion_fn
AttemptResponds(resp, t, fr, cf) ==
    /\ pc = "loop"
    /\ fr \in (IF IsRateLimited(resp) /\ resp.retry_after # NoRetryAfter
               THEN FloatRounding(resp.retry_after,
                        on_request_completion(delay_adjustment_enabled,
                            post_req_delay, successive_req_num, samples, rpm,
                            resp, t).delay)
               ELSE {0})
    /\ LET a == attempt_num + 1
           c == on_request_completion(delay_adjustment_enabled, post_req_delay,
                    successive_req_num, samples, rpm, resp, t)
           limited == c.err = "none" /\ IsRateLimited(resp)
           header == resp.retry_after # NoRetryAfter
           rl == on_rate_limited_request_fail(delay_adjustment_enabled, c.delay,
                     c.cnt, resp.retry_after, fr)
           err == IF c.err # "none" THEN c.err
                  ELSE IF ~limited THEN "none"
                  ELSE IF ~header THEN "KeyError"
                  ELSE rl.err
           retried == limited /\ header
       IN  /\ attempt_num' = a
           /\ samples' = c.samples
           /\ rpm' = c.rpm
           /\ post_req_delay' = IF retried THEN rl.delay ELSE c.delay
           /\ successive_req_num' = IF retried THEN rl.cnt ELSE c.cnt
           /\ shifts' = c.shifts \o (IF retried THEN rl.shifts ELSE <<>>)
           /\ trace' = <<Hook("before_request_attempt", a)>> \o c.trace
                       \o (IF retried THEN rl.trace
                           ELSE IF err = "none" /\ cf
                           THEN <<Hook("print_event", 0)>> ELSE <<>>)
           /\ IF err # "none"
              THEN pc' = "raised" /\ result' = Raised(err, calls + 1)
              ELSE IF ~limited
              THEN /\ pc' = "idle"
                   /\ result' = [kind |-> "response", resp |-> resp,
                                 err |-> "", calls |-> calls + 1]
              ELSE IF LoopExhausted(a)
              THEN pc' = "raised" /\ result' = Raised("RuntimeError", calls + 1)
              ELSE pc' = "loop" /\ result' = result
    /\ lastResp' = resp
    /\ calls' = calls + 1
    /\ callback' = IF /\ callback \in {"none", "always_429_5s"}
                      /\ IsRateLimited(resp)
                      /\ resp.retry_after = FIVE_SECONDS
                   THEN "always_429_5s" ELSE "other"
    /\ lastOp' = "responds"
    /\ UNCHANGED <<fmt, renderer, terminal, caller>>
    /\ UNCHANGED <<delay_adjustment_enabled, req_num, fresh>>

\* the reading of time() on a completion: ClockStep after the newest sample
\* of the batch
NextReading(s) == IF s = <<>> THEN 0 ELSE s[1] + ClockStep

-----------------------------------------------------------------------------
(* Spec: a caller issuing up to MaxReq requests per batch, in any number of *)
(* batches, against a callback that may raise, be rate-limited or complete *)
(* on every attempt.                                                       *)

Next ==
    \/ \E A \in BOOLEAN : ApplyAppArgs(A)
    \/ Reinit
    \/ req_num < MaxReq /\ PerformBegin
    \/ AttemptRaises
    \/ \E resp \in Responses, fr \in {-1, 0, 1}, cf \in CompletionFns :
           AttemptResponds(resp, NextReading(samples), fr, cf)

Spec == Init /\ [][Next]_vars

\* one iteration of the retry loop, whatever request_fn does in it
LoopIteration ==
    \/ AttemptRaises
    \/ \E resp \in Responses, fr \in {-1, 0, 1}, cf \in CompletionFns :
           AttemptResponds(resp, NextReading(samples), fr, cf)

\* SpecFair: Spec for a callback whose every invocation returns or raises
\* -- an iteration of the loop that has begun is carried through.
SpecFair == Spec /\ WF_vars(LoopIteration)

-----------------------------------------------------------------------------
(* SpecLive: SpecFair against a server that may also send a very large      *)
(* Retry-After.  A double of 1e16 or more is not changed by subtracting 1   *)
(* (1e16 - 1 == 1e16): the `seconds -= 1` of _sleep leaves such a value as  *)
(* it is.  The grid cannot hold these values; HUGE stands for all of them.  *)
(* A _sleep() that is still in its loop is the state pc = "sleeping".       *)

HUGE == 2000000000

\* one iteration of the loop in which request_fn returns a 429 with
\* Retry-After: 1e16, up to the `while seconds > 1` of _sleep: Stabilize
\* moves the delay to Retry-After - 0.20, which is HUGE again
AttemptRespondsHuge(t, cf) ==
    /\ pc = "loop"
    /\ LET resp == Response(HTTP_TOO_MANY_REQUESTS, BodySize, HUGE)
           c == on_request_completion(delay_adjustment_enabled, post_req_delay,
                    successive_req_num, samples, rpm, resp, t)
           stabilized ==
               <<[by |-> "stabilize", before |-> c.delay, delta |-> HUGE,
                  eps |-> 0, after |-> HUGE, notified |-> TRUE,
                  skipped |-> FALSE]>>
       IN  /\ c.err = "none"
           /\ attempt_num' = attempt_num + 1
           /\ samples' = c.samples
           /\ rpm' = c.rpm
           /\ post_req_delay' = IF delay_adjustment_enabled THEN HUGE ELSE c.delay
           /\ successive_req_num' = IF delay_adjustment_enabled THEN 0 ELSE c.cnt
           /\ shifts' = c.shifts
                  \o (IF delay_adjustment_enabled THEN stabilized ELSE <<>>)
           /\ trace' = <<Hook("before_request_attempt", attempt_num + 1)>>
                  \o c.trace
                  \o (IF delay_adjustment_enabled
                      THEN <<Hook("on_post_request_delay_update", 1),
                             Hook("print_event_delay", HUGE)>>
                      ELSE <<>>)
                  \o <<Hook("before_sleeping", HUGE)>>
           /\ lastResp' = resp
    /\ pc' = "sleeping"
    /\ calls' = calls + 1
    /\ callback' = "other"
    /\ lastOp' = "responds"
    /\ UNCHANGED <<fmt, renderer, terminal, caller>>
    /\ UNCHANGED <<delay_adjustment_enabled, req_num, result, fresh>>

\* the loop of _sleep on HUGE seconds, one call at a time: the tick, then
\* (`seconds -= 1` changing nothing) sleep(1), and `seconds > 1` holds again
SleepTick ==
    /\ pc = "sleeping"
    /\ trace' = IF trace = <<Hook("sleep_iterator", HUGE)>>
                THEN <<Hook("sleep", SLEEP_SLICE_SEC)>>
                ELSE <<Hook("sleep_iterator", HUGE)>>
    /\ shifts' = <<>>
    /\ lastOp' = "sleep_tick"
    /\ UNCHANGED <<fmt, renderer, terminal, caller>>
    /\ UNCHANGED <<pc, delay_adjustment_enabled, post_req_delay, req_num,
                   successive_req_num, samples, rpm, attempt_num, result,
                   lastResp, calls, callback, fresh>>

NextLive ==
    \/ Next
    \/ \E cf \in CompletionFns : AttemptRespondsHuge(NextReading(samples), cf)
    \/ SleepTick

\* the code runs on: an iteration of the retry loop, or a pass of the loop
\* of _sleep, that can be taken is taken
Running ==
    \/ LoopIteration
    \/ \E cf \in CompletionFns : AttemptRespondsHuge(NextReading(samples), cf)
    \/ SleepTick

SpecLive == Init /\ [][NextLive]_vars /\ WF_vars(Running)

-----------------------------------------------------------------------------
(* SpecSteady: long batches.  The caller issues up to MaxReqSteady requests *)
(* per batch; the callback raises or is rate-limited only on the first      *)
(* attempts of the first requests of a batch and completes otherwise.       *)

MaxReqSteady == 92
\* the callback may fail on requests 1..MaxRetryReq, attempts 1..MaxRetryAttempt
MaxRetryReq == 2
MaxRetryAttempt == 1

MayRetry == req_num <= MaxRetryReq /\ attempt_num < MaxRetryAttempt

NextSteady ==
    \/ \E A \in BOOLEAN : ApplyAppArgs(A)
    \/ Reinit
    \/ req_num < MaxReqSteady /\ PerformBegin
    \/ MayRetry /\ AttemptRaises
    \/ \E resp \in Responses, fr \in {-1, 0, 1}, cf \in CompletionFns :
           /\ IsRateLimited(resp) => MayRetry
           /\ AttemptResponds(resp, NextReading(samples), fr, cf)

SpecSteady == Init /\ [][NextSteady]_vars

-----------------------------------------------------------------------------
(* SpecBatches: the long batches of SpecSteady against a server whose       *)
(* Retry-After may also be a fraction of a second off the tenths.           *)

\* Retry-After: 0.3005
FRACTIONAL_RETRY_AFTER == 3005

ResponsesBatches ==
    Responses \cup {Response(HTTP_TOO_MANY_REQUESTS, BodySize, FRACTIONAL_RETRY_AFTER)}

NextBatches ==
    \/ \E A \in BOOLEAN : ApplyAppArgs(A)
    \/ Reinit
    \/ req_num < MaxReqSteady /\ PerformBegin
    \/ MayRetry /\ AttemptRaises
    \/ \E resp \in ResponsesBatches, fr \in {-1, 0, 1}, cf \in CompletionFns :
           /\ IsRateLimited(resp) => MayRetry
           /\ AttemptResponds(resp, NextReading(samples), fr, cf)

SpecBatches == Init /\ [][NextBatches]_vars

-----------------------------------------------------------------------------
(* SpecRpm: compute_rpm on the windows that up to MaxReqRpm completions     *)
(* build, with readings of time() that may repeat (a clock of finite        *)
(* resolution) or lie RpmGaps seconds apart.                                *)

MaxReqRpm == 7
RpmGaps == {0, 3, 6}

NextRpm ==
    \/ \E A \in {FALSE} : ApplyAppArgs(A)
    \/ req_num < MaxReqRpm /\ PerformBegin
    \/ \E st \in Statuses, g \in RpmGaps, cf \in CompletionFns :
           AttemptResponds(Response(st, BodySize, NoRetryAfter),
                           IF samples = <<>> THEN 0 ELSE samples[1] + g, 0, cf)

SpecRpm == Init /\ [][NextRpm]_vars

-----------------------------------------------------------------------------
(* What a step's trace and shifts say.                                      *)

\* the seconds the _sleep() and sleep() calls of a trace ask for
\* (summed by halves: a trace of a long sleep has hundreds of calls)
RECURSIVE SleepTotal(_)
SleepTotal(tr) ==
    IF tr = <<>> THEN 0
    ELSE IF Len(tr) = 1
         THEN (IF tr[1].h \in {"_sleep", "sleep"} THEN tr[1].a ELSE 0)
         ELSE SleepTotal(SubSeq(tr, 1, Len(tr) \div 2))
              + SleepTotal(SubSeq(tr, Len(tr) \div 2 + 1, Len(tr)))

HasHook(tr, h) == \E i \in DOMAIN tr : tr[i].h = h

\* the renderer was told of a delay change: the marker and the event
DelayChangeNotified(tr) ==
    HasHook(tr, "on_post_request_delay_update") \/ HasHook(tr, "print_event_delay")

\* the latest step handled a 429 response
RateLimitedStep == lastOp = "responds" /\ IsRateLimited(lastResp)

\* the latest step handled a 429 response that carries Retry-After
RetryAfterStep == RateLimitedStep /\ lastResp.retry_after # NoRetryAfter

-----------------------------------------------------------------------------
(* Claims on the retry loop.                                                *)

\* C1 (as claimed): in adaptive mode a callback that raises a transport error
\* on every call is invoked exactly RETRY_MAX_NUM + 1 = 21 times, a backoff
\* is taken after each failure, and the call then fails with RuntimeError
\* ('Max retry amount exceeded') and with no other error.
C1_AlwaysRaisingCallback ==
    (delay_adjustment_enabled /\ callback = "always_raises") =>
        /\ calls <= RETRY_MAX_NUM + 1
        /\ HasHook(trace, "_sleep")
        /\ pc = "raised" <=> calls = RETRY_MAX_NUM + 1
        /\ pc = "raised" => result.err = "RuntimeError"

\* C2 (as claimed): on a freshly reinitialised controller in adaptive mode,
\* with 429 / Retry-After 5 on calls 1 and 2 and another status on call 3,
\* each of the two 429s is followed by a sleep of at least 5 s and leaves the
\* post-request delay strictly larger than before it, and the call returns
\* the response of the third call.
C2_TwoRateLimitsThenSuccess ==
    [][(delay_adjustment_enabled /\ fresh /\ pc = "loop" /\ lastOp' = "responds") =>
          /\ (calls <= 1 /\ callback' = "always_429_5s") =>
                 /\ pc' = "loop"
                 /\ SleepTotal(trace') >= FIVE_SECONDS
                 /\ post_req_delay' > post_req_delay
          /\ (calls = 2 /\ callback = "always_429_5s" /\ ~IsRateLimited(lastResp')) =>
                 /\ pc' = "idle"
                 /\ result'.kind = "response"
                 /\ result'.resp = lastResp']_vars

C4_SharedAttemptBudget ==
    /\ calls <= RETRY_MAX_NUM + 1
    /\ (calls = RETRY_MAX_NUM + 1 /\ (lastOp = "raises" \/ RetryAfterStep)) =>
           /\ pc = "raised"
           /\ result.err = "RuntimeError"

\* C7 (as claimed): a delay update that Stabilize or Optimize issues with a
\* requested value less than 0.001 s from the current delay changes nothing
\* and sends the renderer no notification.
C7_NoOpUpdateIsSilent ==
    \A i \in DOMAIN shifts :
        (~shifts[i].skipped /\ Abs(shifts[i].delta) < ABS_TOL) =>
            /\ shifts[i].after = shifts[i].before
            /\ ~shifts[i].notified
            /\ ~DelayChangeNotified(trace)

-----------------------------------------------------------------------------
(* Claims on the delay, the counter and the sample window.                  *)

RetryAfterProbes == RetryAfters \cup {0, 1000, 2000, 3000, ONE_SECOND}

OptimizeShifts == {i \in DOMAIN shifts : shifts[i].by = "optimize"}
StabilizeShifts == {i \in DOMAIN shifts : shifts[i].by = "stabilize"}

\* C5: Stabilize never leaves the post-request delay lower than it found it
\* and Optimize never leaves it higher -- in the steps taken, and for every
\* Retry-After value and counter value at every reachable delay.
C5_StabilizeUpOptimizeDown ==
    /\ \A i \in StabilizeShifts : shifts[i].after >= shifts[i].before
    /\ \A i \in OptimizeShifts : shifts[i].after <= shifts[i].before
    /\ \A r \in RetryAfterProbes : \A fr \in FloatRounding(r, post_req_delay) :
           stabilize_flow(delay_adjustment_enabled, post_req_delay,
               successive_req_num, r, fr).delay >= post_req_delay
    /\ \A cnt \in 0..100 :
           optimize_flow(delay_adjustment_enabled, post_req_delay, cnt).delay
               <= post_req_delay

\* C5 witness: Optimize has lowered a delay that Stabilize had raised to 4.8 s
C5_Witness ==
    \E i \in OptimizeShifts :
        /\ shifts[i].before = FIVE_SECONDS - DELAY_POST_REQUEST_STABILIZE_SEC
        /\ shifts[i].after < shifts[i].before

\* C6: the post-request delay is never below the floor DELAY_POST_MIN_SEC
C6_DelayNeverBelowFloor == post_req_delay >= DELAY_POST_MIN_SEC

\* C6 witness: Optimize asked for a delay below the floor and the setter
\* clamped it
C6_Witness ==
    \E i \in OptimizeShifts :
        /\ ~shifts[i].skipped
        /\ shifts[i].before + shifts[i].delta < DELAY_POST_MIN_SEC
        /\ post_req_delay = DELAY_POST_MIN_SEC

C9_RpmFromWindow ==
    lastOp = "responds" =>
        LET n == Len(samples)
            dt == samples[1] - samples[n]
        IN  /\ n < 6 => ~rpm.known
            /\ n >= 6 => /\ result.err # "ZeroDivisionError"
                         /\ rpm.known
                         /\ rpm.num * dt = 60 * n * rpm.den
            /\ (n = 6 /\ dt = 30) => rpm.num = 12 * rpm.den

\* C9, away from the windows compute_rpm cannot divide for: the same
\* statement for the completions that return
RpmFromWindowWhenDefined ==
    (lastOp = "responds" /\ pc # "raised") =>
        LET n == Len(samples)
            dt == samples[1] - samples[n]
        IN  /\ n < 6 => ~rpm.known
            /\ n >= 6 => rpm.known /\ rpm.num * dt = 60 * n * rpm.den
            /\ (n = 6 /\ dt = 30) => rpm.num = 12 * rpm.den

\* C10: the window holds at most 60 timestamps, newest first; a completion
\* puts its timestamp at the front, evicts exactly the oldest sample when
\* the window already holds 60, and leaves the others in their order.
C10_WindowBoundedNewestFirst ==
    /\ [](/\ Len(samples) <= 60
          /\ \A i, j \in DOMAIN samples : i < j => samples[i] >= samples[j])
    /\ [][lastOp' = "responds" =>
             /\ Len(samples') >= 1
             /\ samples'[1] >= (IF samples = <<>> THEN 0 ELSE samples[1])
             /\ Tail(samples') = (IF Len(samples) = 60
                                  THEN SubSeq(samples, 1, 59) ELSE samples)]_vars

\* C10 witness: the window is full and the first samples of the batch have
\* been evicted
C10_Witness ==
    /\ Len(samples) = 60
    /\ samples[60] > 2 * ClockStep

-----------------------------------------------------------------------------
(* Claims on Stabilize, the sleeps and the rate-limit wait.                 *)

\* C11 (as claimed): after every Stabilize that a rate-limited response with
\* Retry-After r triggers, the post-request delay is strictly below r.
C11_DelayBelowRetryAfter ==
    (delay_adjustment_enabled /\ RateLimitedStep /\ StabilizeShifts # {}) =>
        post_req_delay < lastResp.retry_after

\* the time.sleep() calls behind one entry of a trace: the slices of a
\* _sleep(seconds) call, or the entry itself
SleepSlices(e) == IF e.h = "_sleep" THEN Sleep(e.a) ELSE <<e>>

\* C12 (as claimed): every single time.sleep() call of the controller --
\* backoff, rate-limit wait, post-request throttle -- lasts at most 1 s
\* (10000 on the grid).
C12_EverySleepAtMostOneSecond ==
    \A i \in DOMAIN trace :
        LET sl == SleepSlices(trace[i])
        IN  \A j \in DOMAIN sl : sl[j].h = "sleep" => sl[j].a <= 10000

\* the step's trace ends with before_sleeping(r) and a _sleep whose slices
\* add up to r plus the delay now in force
EndsWithRateLimitWait ==
    /\ Len(trace) >= 2
    /\ trace[Len(trace) - 1] = Hook("before_sleeping", lastResp.retry_after)
    /\ trace[Len(trace)].h = "_sleep"
    /\ SleepTotal(Sleep(trace[Len(trace)].a))
           = lastResp.retry_after + post_req_delay

\* C13 (as claimed): after a 429 response with Retry-After r the renderer is
\* notified before_sleeping(r), the controller then sleeps r plus the
\* post-request delay that Stabilize left, and the step ends there: the next
\* attempt, or the exit of the loop, comes after the wait.
C13_RateLimitWait ==
    RetryAfterStep =>
        /\ EndsWithRateLimitWait
        /\ pc = "loop" \/ (pc = "raised" /\ result.err = "RuntimeError")

\* C13, for the rate-limited responses on which Stabilize returns
RateLimitWaitWhenStabilizeReturns ==
    (RetryAfterStep /\ result.err # "ZeroDivisionError") =>
        /\ EndsWithRateLimitWait
        /\ pc = "loop" \/ (pc = "raised" /\ result.err = "RuntimeError")

-----------------------------------------------------------------------------
(* Claims on the non-adaptive mode, reinit and the missing header.          *)

\* C14: with adaptive mode disabled the post-request delay stays 0.0, no
\* step shifts the delay or notifies a delay change, Stabilize and Optimize
\* leave delay and counter as they are for every Retry-After value, and the
\* backoff of a transport failure is 30 s (300000 on the grid) for every
\* attempt number 1..21.
C14_NonAdaptiveMode ==
    ~delay_adjustment_enabled =>
        /\ post_req_delay = 0
        /\ shifts = <<>>
        /\ ~DelayChangeNotified(trace)
        /\ \A r \in RetryAfterProbes : \A fr \in {-1, 0, 1} :
               LET st == stabilize_flow(delay_adjustment_enabled,
                             post_req_delay, successive_req_num, r, fr)
               IN  /\ st.delay = post_req_delay
                   /\ st.cnt = successive_req_num
                   /\ st.trace = <<>>
        /\ LET of == optimize_flow(delay_adjustment_enabled, post_req_delay,
                         successive_req_num)
           IN  /\ of.delay = post_req_delay
               /\ of.cnt = successive_req_num
               /\ of.trace = <<>>
        /\ \A n \in 1..21 :
               get_progressing_delay_on_failure(delay_adjustment_enabled, n)
                   = 300000
        /\ lastOp = "raises" =>
               /\ attempt_num \in 1..21
               /\ \E i \in DOMAIN trace : trace[i] = Hook("before_sleeping", 300000)
               /\ \E i \in DOMAIN trace : trace[i] = Hook("_sleep", 300000)

\* C14 witness: in non-adaptive mode the 21st transport failure of a call has
\* slept its 30 s and the call has ended, the delay still 0.0
C14_Witness ==
    /\ ~delay_adjustment_enabled
    /\ lastOp = "raises"
    /\ attempt_num = 21
    /\ pc = "raised"
    /\ \E i \in DOMAIN trace : trace[i] = Hook("_sleep", 300000)
    /\ post_req_delay = 0

\* C15 (as claimed): right after reinit, whatever the previous batch left,
\* the post-request delay is the initial 0.0, the sample window is empty,
\* RPM is unknown, the consecutive-success counter and the request ordinal
\* are 0, and the renderer has been reinitialised with the controller.
C15_ReinitResetsEverything ==
    lastOp = "reinit" =>
        /\ post_req_delay = 0
        /\ samples = <<>>
        /\ rpm_unknown(rpm)
        /\ successive_req_num = 0
        /\ req_num = 0
        /\ trace = <<Hook("reinit", 0)>>

\* C15, but for the exact value of the delay: reinit leaves it within the
\* setter's tolerance of the initial value
ReinitResetsWithinTolerance ==
    lastOp = "reinit" =>
        /\ IsClose(post_req_delay, DELAY_POST_REQUEST_INITIAL_SEC)
        /\ samples = <<>>
        /\ rpm_unknown(rpm)
        /\ successive_req_num = 0
        /\ req_num = 0
        /\ trace = <<Hook("reinit", 0)>>

\* C16 (as claimed): a 429 response without Retry-After triggers neither
\* Stabilize nor a wait nor a retry; it is returned to the caller like any
\* other status and the call does not fail.
C16_RateLimitWithoutHeader ==
    (RateLimitedStep /\ lastResp.retry_after = NoRetryAfter) =>
        /\ StabilizeShifts = {}
        /\ ~HasHook(trace, "_sleep")
        /\ pc = "idle"
        /\ result = [kind |-> "response", resp |-> lastResp, err |-> "",
                     calls |-> calls]

-----------------------------------------------------------------------------
(* Termination.                                                             *)

\* every _sleep() of the latest step waits a non-negative time in finitely
\* many slices: a tick and a sleep(1) per whole second, and the rest
SleepsAreFinite ==
    \A i \in DOMAIN trace :
        trace[i].h = "_sleep" =>
            /\ trace[i].a >= 0
            /\ Len(Sleep(trace[i].a)) <= 2 * (trace[i].a \div SLEEP_SLICE_SEC) + 1

\* C17 (as claimed): every call of perform_retriable_request terminates,
\* for a callback that returns or raises on every invocation and
\* Retry-After values that are finite and not negative: a call that has
\* begun eventually returns a response or fails with an error.
C17_CallTerminates ==
    (pc = "loop") ~> (pc = "idle" \/ pc = "raised")

\* C17, for Retry-After values on the grid: inside the loop the attempt
\* number is at most 20 and grows with every iteration that stays in it,
\* every wait is finite, and the call ends
CallTerminatesOnGrid ==
    /\ [](pc = "loop" => attempt_num <= 20)
    /\ [][(pc = "loop" /\ pc' = "loop") => attempt_num' > attempt_num]_vars
    /\ []SleepsAreFinite
    /\ (pc = "loop") ~> (pc = "idle" \/ pc = "raised")

-----------------------------------------------------------------------------
(* The renderer seen from the controller.                                   *)

\* the renderer operations the controller called in the latest step, the
\* ticks of its _sleep() calls included
RendererCalls ==
    {trace[i].h : i \in {j \in DOMAIN trace : trace[j].h \notin SleepCalls}}
    \cup UNION {{Sleep(trace[i].a)[k].h : k \in DOMAIN Sleep(trace[i].a)} :
                   i \in {j \in DOMAIN trace : trace[j].h = "_sleep"}}

\* C18 (as claimed): the controller needs nothing of its renderer but the
\* hooks of RequestFlowInterace: every renderer operation it calls is one of
\* them, so a no-op renderer that implements only that interface serves.
C18_OnlyInterfaceHooks ==
    RendererCalls \ SleepCalls \subseteq RequestFlowInterace

-----------------------------------------------------------------------------
(* util/io.py: the formatting helpers the renderer and the dumpers call.
   A text is a sequence of one-character strings, so that padding, digits
   and units are compared character by character. *)

Digits == <<"0", "1", "2", "3", "4", "5", "6", "7", "8", "9">>

RECURSIVE Pow(_, _)
Pow(b, n) == IF n = 0 THEN 1 ELSE b * Pow(b, n - 1)

\* str(n) of a non-negative int
RECURSIVE IntText(_)
IntText(n) ==
    IF n < 10 THEN <<Digits[n + 1]>>
    ELSE IntText(n \div 10) \o <<Digits[(n % 10) + 1]>>

RECURSIVE Blanks(_)
Blanks(n) == IF n <= 0 THEN <<>> ELSE <<" ">> \o Blanks(n - 1)

RECURSIVE Zeros(_)
Zeros(n) == IF n <= 0 THEN <<>> ELSE <<"0">> \o Zeros(n - 1)

\* format spec '>w' (the default alignment of numbers): never cuts the text
AlignRight(text, w) == Blanks(w - Len(text)) \o text

\* format spec '<w' (the default alignment of strings): never cuts the text
AlignLeft(text, w) == text \o Blanks(w - Len(text))

\* the integer nearest to num / den, a tie going to the even one: the
\* rounding of float.__format__ for the presentation types f and e
RoundHalfEven(num, den) ==
    LET q == num \div den
        r == num % den
    IN  IF 2 * r > den \/ (2 * r = den /\ q % 2 = 1) THEN q + 1 ELSE q

\* f'{num / den:.{decimals}f}'
FixedText(num, den, decimals) ==
    LET q == RoundHalfEven(num * Pow(10, decimals), den)
        whole == q \div Pow(10, decimals)
        part == IntText(q % Pow(10, decimals))
    IN  IntText(whole) \o
        (IF decimals = 0 THEN <<>>
         ELSE <<".">> \o Zeros(decimals - Len(part)) \o part)

\* the decimal expansion of r / den, for 0 <= r < den and den a power of two
RECURSIVE FractionText(_, _)
FractionText(r, den) ==
    IF r = 0 THEN <<>>
    ELSE <<Digits[((r * 10) \div den) + 1]>> \o FractionText((r * 10) % den, den)

\* str(x) of the float x = num / den, den a power of two and x below 1e16:
\* the shortest text that reads back as x, which for these x is the exact
\* expansion, with ".0" when x is whole
FloatText(num, den) ==
    IntText(num \div den) \o <<".">> \o
    (IF num % den = 0 THEN <<"0">> ELSE FractionText(num % den, den))

\* AutoFloat._convert_spec for the type f: the decimals that fit max_len
AutoFloatDecimals(num, den, max_len) ==
    LET max_decimals_len == 2
        integer_len == Len(IntText(num \div den))
        decimals_and_point_len ==
            IF max_decimals_len + 1 < max_len - integer_len
            THEN max_decimals_len + 1 ELSE max_len - integer_len
    IN  IF decimals_and_point_len >= 2 THEN decimals_and_point_len - 1 ELSE 0

\* f'{AutoFloat(num / den):{max_len}f}'
AutoFloat(num, den, max_len) ==
    AlignRight(FixedText(num, den, AutoFloatDecimals(num, den, max_len)), max_len)

(* fmt_sizeof.  A byte count is m * 1024^e, held as the pair of m and e,
   because the counts that leave the list of prefixes are beyond the
   integers of the checker; Python's int and the halvings of a float by
   1024.0 are exact on these counts.  Inside the loop the exponent goes
   below zero when the mantissa itself is divided. *)
unit_prefixes == <<"", "k", "M", "G", "T", "P", "E", "Z">>

Size(m, e) == [m |-> m, e |-> e]

\* Size(m, e) >= 1024^u, for m below 1024^3
SizeAtLeast(n, u) ==
    IF n.e >= u THEN n.m >= 1
    ELSE IF u - n.e <= 2 THEN n.m >= Pow(1024, u - n.e)
    ELSE FALSE

\* the text of a prefix and the unit: the empty prefix adds no character
UnitText(prefix, unit) == (IF prefix = "" THEN <<>> ELSE <<prefix>>) \o <<unit>>

\* the value m * 1024^e of the loop as the fraction num / den
SizeNum(n) == IF n.e >= 0 THEN n.m * Pow(1024, n.e) ELSE n.m
SizeDen(n) == IF n.e >= 0 THEN 1 ELSE Pow(1024, 0 - n.e)

RECURSIVE fmt_sizeof_loop(_, _, _, _)
fmt_sizeof_loop(num, unit_idx, separator, unit) ==
    IF unit_idx = Len(unit_prefixes)
    THEN FloatText(SizeNum(num), SizeDen(num)) \o <<unit>>
    ELSE IF SizeAtLeast(num, 1)
    THEN fmt_sizeof_loop(Size(num.m, num.e - 1), unit_idx + 1, separator, unit)
    ELSE (IF unit_idx = 0
          THEN AlignRight(IntText(SizeNum(num)), 5)
          ELSE AutoFloat(SizeNum(num), SizeDen(num), 5))
         \o <<separator>> \o UnitText(unit_prefixes[unit_idx + 1], unit)

fmt_sizeof(num) ==
    fmt_sizeof_loop(IF num.m < 0 THEN Size(0, 0) ELSE num, 0, " ", "b")

(* fmt_time_delta.  A duration is a count of tenths of a second (TENTHS to
   the second), so that the fractional durations and the ties of the
   rounding (9.5, 59.5) are inputs; num of the loop is held in tenths too.
   After the first division num is whole, as floor() makes it. *)
TENTHS == 10

time_units == <<
    [name |-> <<"s", "e", "c">>, in_next |-> 60],
    [name |-> <<"m", "i", "n">>, in_next |-> 60],
    [name |-> <<"h", "r">>,      in_next |-> 24],
    [name |-> <<"d", "a", "y">>, in_next |-> 30],
    [name |-> <<"m", "o", "n">>, in_next |-> 12],
    [name |-> <<"y", "r">>,      in_next |-> 0] >>

\* the largest p with 10^p <= n, for n >= 1
RECURSIVE Magnitude(_)
Magnitude(n) == IF n < 10 THEN 0 ELSE 1 + Magnitude(n \div 10)

\* f'{seconds:>6.0e}' for seconds >= 1: one digit, rounded, and the exponent
ExponentText(seconds) ==
    LET p == Magnitude(seconds \div TENTHS)
        d == RoundHalfEven(seconds, TENTHS * Pow(10, p))
        digit == IF d = 10 THEN 1 ELSE d
        expo == IF d = 10 THEN p + 1 ELSE p
    IN  AlignRight(<<Digits[digit + 1], "e", "+">>
                   \o Zeros(2 - Len(IntText(expo))) \o IntText(expo), 6)

RECURSIVE fmt_time_delta_loop(_, _, _, _)
fmt_time_delta_loop(seconds, num, unit_idx, prev_frac) ==
    IF unit_idx >= Len(time_units)
    THEN <<"None">>   \* the loop ends without a return; the last unit has
                      \* no ratio, so that this is never reached
    ELSE
    LET unit == time_units[unit_idx + 1]
        unit_name == unit.name
        next_unit_ratio == unit.in_next
        next_num == num \div (next_unit_ratio * TENTHS)
    IN  IF num < 1 * TENTHS
        THEN <<"<", "1", " ">> \o AlignLeft(unit_name, 3)
        ELSE IF next_unit_ratio = 0
        THEN ExponentText(seconds)
        ELSE IF num < 10 * TENTHS /\ (unit_name = <<"h", "r">> \/ unit_name = <<"m", "o", "n">>)
        THEN AlignRight(FixedText(num, TENTHS, 0), 1) \o <<unit_name[1]>> \o <<" ">>
             \o AlignLeft(prev_frac, 3)
        ELSE IF num < next_unit_ratio * TENTHS
        THEN AlignRight(FixedText(num, TENTHS, 0), 2) \o <<" ">> \o AlignLeft(unit_name, 3)
        ELSE fmt_time_delta_loop(
                 seconds, next_num * TENTHS, unit_idx + 1,
                 IntText((num - next_num * next_unit_ratio * TENTHS) \div TENTHS)
                     \o <<unit_name[1]>>)

fmt_time_delta(seconds) ==
    LET s == IF seconds < 0 THEN 0 ELSE seconds
    IN  fmt_time_delta_loop(s, s, 0, <<>>)

(* The calls of the helpers.  The byte counts cover the plain bytes, every
   prefix, the ties and the carries of the rounding, and the counts beyond
   the last prefix; the durations cover every unit, both compound forms and
   the durations of a year (360 days) and more. *)
SizeMantissas ==
    {-3, 0, 1, 5, 999, 1023, 1024, 1025, 1152, 1536, 10240, 12861, 102400,
     1047552, 1048575}

SizeExponents == 0 .. Len(unit_prefixes)

Sizes == {Size(m, e) : m \in SizeMantissas \ {-3, 0}, e \in SizeExponents}
         \cup {Size(-3, 0), Size(0, 0)}

Durations ==
    {-50, 0, 4, 9, 10, 25, 95, 105, 450, 595, 600, 1300, 1305, 35990, 36000,
     36300, 193800, 360000, 863990, 864000, 25920000, 69984000, 259200000,
     311040000, 350000000, 622080000, 1000000000, 2000000000}

controller_vars ==
    <<pc, delay_adjustment_enabled, post_req_delay, req_num,
      successive_req_num, samples, rpm, attempt_num, result, lastResp,
      calls, callback, fresh, trace, shifts, lastOp>>

FmtSizeof(num) ==
    /\ fmt' = [fn |-> "fmt_sizeof", arg |-> num, out |-> fmt_sizeof(num)]
    /\ UNCHANGED <<controller_vars, renderer, terminal, caller>>

FmtTimeDelta(seconds) ==
    /\ fmt' = [fn |-> "fmt_time_delta", arg |-> seconds,
               out |-> fmt_time_delta(seconds)]
    /\ UNCHANGED <<controller_vars, renderer, terminal, caller>>

NextFmt ==
    \/ \E num \in Sizes : FmtSizeof(num)
    \/ \E seconds \in Durations : FmtTimeDelta(seconds)

SpecFmt == Init /\ [][NextFmt]_vars

(* Reading a result back: the text without the blanks around it (the
   str.strip() of the callers in cli.py and the dumpers), the number it
   starts with and what follows the number. *)
RECURSIVE StripLeft(_)
StripLeft(t) == IF t # <<>> /\ Head(t) = " " THEN StripLeft(Tail(t)) ELSE t

RECURSIVE StripRight(_)
StripRight(t) ==
    IF t # <<>> /\ t[Len(t)] = " " THEN StripRight(SubSeq(t, 1, Len(t) - 1)) ELSE t

Strip(t) == StripRight(StripLeft(t))

IsDigit(c) == \E d \in DOMAIN Digits : Digits[d] = c

\* the length of the number a text starts with: digits and the point
RECURSIVE NumberLen(_)
NumberLen(t) ==
    IF t # <<>> /\ (IsDigit(Head(t)) \/ Head(t) = ".") THEN 1 + NumberLen(Tail(t)) ELSE 0

NumberPart(t) == SubSeq(t, 1, NumberLen(t))

AfterNumber(t) == Strip(SubSeq(t, NumberLen(t) + 1, Len(t)))

\* the digits after the point
RECURSIVE ShownDecimals(_)
ShownDecimals(t) ==
    IF t = <<>> THEN 0
    ELSE IF Head(t) = "." THEN Len(t) - 1
    ELSE ShownDecimals(Tail(t))

\* the number read without its point: the value times 10^ShownDecimals
RECURSIVE ShownScaled(_)
ShownScaled(t) ==
    IF t = <<>> THEN 0
    ELSE IF t[Len(t)] = "." THEN ShownScaled(SubSeq(t, 1, Len(t) - 1))
    ELSE 10 * ShownScaled(SubSeq(t, 1, Len(t) - 1))
         + (CHOOSE d \in 0 .. 9 : Digits[d + 1] = t[Len(t)])

-----------------------------------------------------------------------------
\* the unit of the claim for a count: the largest u with n / 1024^u >= 1,
\* plain bytes (u = 0) below 1024
LargestUnit(n) ==
    CHOOSE u \in 0 .. n.e + 2 :
        (u = 0 \/ SizeAtLeast(n, u)) /\ ~SizeAtLeast(n, u + 1)

\* the result shows the count in the unit u: the number is n / 1024^u
\* rounded to the decimals shown, the unit is that of the prefix u, and
\* plain bytes are the unit of the counts below 1024 only
ShownInUnit(n, out, u) ==
    LET text == Strip(out)
        number == NumberPart(text)
        unit == AfterNumber(text)
        value == Size(n.m, n.e - u)
    IN  /\ number # <<>>
        /\ ShownScaled(number)
             = RoundHalfEven(SizeNum(value) * Pow(10, ShownDecimals(number)),
                             SizeDen(value))
        /\ u < Len(unit_prefixes) => unit = UnitText(unit_prefixes[u + 1], "b")
        /\ unit = <<"b">> <=> u = 0

\* the three examples of the claim, read without the blanks around them
SizeofExamples(n, out) ==
    /\ n = Size(0, 0) => Strip(out) = <<"0", " ", "b">>
    /\ n = Size(1536, 0) => Strip(out) = <<"1", ".", "5", "0", " ", "k", "b">>
    /\ n \in {Size(1, 2), Size(1024, 1)}
           => Strip(out) = <<"1", ".", "0", "0", " ", "M", "b">>

\* C19: fmt_sizeof uses 1024-based units: a byte count n >= 0 is shown in
\* the largest unit u (b, kb, Mb, ...) for which n / 1024^u >= 1 (plain
\* bytes below 1024), with the value n / 1024^u; 0 gives "0 b", 1536 gives
\* "1.50 kb" and 1048576 gives "1.00 Mb".  The result is read without the
\* blanks around it.
C19_SizeofLargestUnit ==
    (fmt.fn = "fmt_sizeof" /\ fmt.arg.m >= 0) =>
        /\ ShownInUnit(fmt.arg, fmt.out, LargestUnit(fmt.arg))
        /\ SizeofExamples(fmt.arg, fmt.out)

\* what holds of fmt_sizeof: the statement of C19 for the counts below
\* 1024^8, the counts the list of prefixes reaches
SizeofLargestUnitWithinPrefixes ==
    (fmt.fn = "fmt_sizeof" /\ fmt.arg.m >= 0
        /\ LargestUnit(fmt.arg) < Len(unit_prefixes)) =>
        /\ ShownInUnit(fmt.arg, fmt.out, LargestUnit(fmt.arg))
        /\ SizeofExamples(fmt.arg, fmt.out)

-----------------------------------------------------------------------------
\* the ratios of the claim, from the seconds upwards
UnitRatios == <<60, 60, 24, 30, 12>>

\* the unit the successive divisions of the claim reach: the number of
\* ratios a whole number of seconds can be divided by before it falls
\* below the next one
RECURSIVE DivisionsUnit(_, _)
DivisionsUnit(num, ratios) ==
    IF ratios = <<>> \/ num < Head(ratios) THEN 0
    ELSE 1 + DivisionsUnit(num \div Head(ratios), Tail(ratios))

\* the unit a result names: the first letter after the number it starts with
NamedUnit(out) ==
    LET rest == AfterNumber(Strip(out))
    IN  IF rest = <<>> THEN "" ELSE Head(rest)

\* the three examples of the claim, read without the blanks around them
TimeDeltaExamples(seconds, out) ==
    /\ seconds = 45 * TENTHS => Strip(out) = <<"4", "5", " ", "s", "e", "c">>
    /\ seconds = 130 * TENTHS => Strip(out) = <<"2", " ", "m", "i", "n">>
    /\ seconds = 4 => Strip(out) = <<"<", "1", " ", "s", "e", "c">>

\* C20: fmt_time_delta returns a result for every non-negative duration and
\* picks the unit by successive division by 60, 60, 24, 30, 12, reporting
\* durations below one second as "<1 sec": 45 seconds gives "45 sec", 130
\* seconds gives "2 min" and 0.4 seconds gives "<1 sec".  The result is read
\* without the blanks around it.
C20_TimeDeltaUnitByDivision ==
    (fmt.fn = "fmt_time_delta" /\ fmt.arg >= 0) =>
        /\ fmt.out # <<"None">>
        /\ fmt.arg < TENTHS => Strip(fmt.out) = <<"<", "1", " ", "s", "e", "c">>
        /\ fmt.arg >= TENTHS =>
               NamedUnit(fmt.out)
                 = time_units[DivisionsUnit(fmt.arg \div TENTHS, UnitRatios) + 1].name[1]
        /\ TimeDeltaExamples(fmt.arg, fmt.out)

\* what holds of fmt_time_delta: the statement of C20 for the durations
\* below a year of 360 days
TimeDeltaUnitBelowYear ==
    (fmt.fn = "fmt_time_delta" /\ fmt.arg >= 0
        /\ DivisionsUnit(fmt.arg \div TENTHS, UnitRatios) < Len(UnitRatios)) =>
        /\ fmt.out # <<"None">>
        /\ fmt.arg < TENTHS => Strip(fmt.out) = <<"<", "1", " ", "s", "e", "c">>
        /\ fmt.arg >= TENTHS =>
               NamedUnit(fmt.out)
                 = time_units[DivisionsUnit(fmt.arg \div TENTHS, UnitRatios) + 1].name[1]
        /\ TimeDeltaExamples(fmt.arg, fmt.out)

-----------------------------------------------------------------------------
(* Claims on the notifications, the order of a completion and the frame of  *)
(* a failure.                                                               *)

\* the calls of hook h in a trace, in their order
HookCalls(tr, h) == SelectSeq(tr, LAMBDA e : e.h = h)

\* the shifts of the latest step that reached the setter
SetterShifts == SelectSeq(shifts, LAMBDA s : ~s.skipped)

\* the direction of a shift: 1 increase, -1 decrease, 0 unchanged; where the
\* exact shift is 0 the float residue decides
Direction(s) == IF s.delta # 0 THEN Sign(s.delta) ELSE s.eps

\* C21 (as claimed): every adjustment Stabilize or Optimize makes through
\* the setter is followed by exactly one on_post_request_delay_update
\* carrying its direction -- increase, decrease, or unchanged for a zero
\* shift -- and never fails; a Stabilize whose Retry-After minus the delay
\* is exactly 0.20 s completes and reports 'unchanged'.
C21_EveryAdjustmentNotified ==
    LET updates == HookCalls(trace, "on_post_request_delay_update")
    IN  /\ Len(updates) = Len(SetterShifts)
        /\ \A i \in DOMAIN SetterShifts :
               /\ SetterShifts[i].notified
               /\ updates[i].a = Direction(SetterShifts[i])
        /\ SetterShifts # <<>> => result.err # "ZeroDivisionError"
        /\ \A i \in DOMAIN SetterShifts :
               (SetterShifts[i].by = "stabilize" /\ Direction(SetterShifts[i]) = 0) =>
                   /\ pc # "raised"
                   /\ HookCalls(trace, "on_post_request_delay_update")
                        = <<Hook("on_post_request_delay_update", 0)>>

\* what holds of the notifications: the statement of C21 for the shifts
\* whose float value is not zero
NonZeroAdjustmentNotified ==
    LET updates == HookCalls(trace, "on_post_request_delay_update")
        nonzero == SelectSeq(SetterShifts, LAMBDA s : Direction(s) # 0)
    IN  /\ Len(updates) = Len(nonzero)
        /\ \A i \in DOMAIN nonzero :
               /\ nonzero[i].notified
               /\ updates[i].a = Direction(nonzero[i])
               /\ updates[i].a \in {-1, 1}

\* what Stabilize did in the latest step, for Retry-After r: one shift, by
\* r - d - 0.20 when r - d >= 0.20 and by 0.20 otherwise (a float difference
\* that is 0.20 on the grid may fall on either side), the delay set through
\* the floor clamp and the tolerance of the setter, and the counter at 0
StabilizedTo(r) ==
    /\ Cardinality(StabilizeShifts) = 1
    /\ \A i \in StabilizeShifts :
           LET d == shifts[i].before
               step == DELAY_POST_REQUEST_STABILIZE_SEC
               target == Max(DELAY_POST_MIN_SEC, d + shifts[i].delta)
           IN  /\ \/ r - d >= step /\ shifts[i].delta = r - d - step
                  \/ r - d <= step /\ shifts[i].delta = step
               /\ shifts[i].after = (IF Abs(target - d) <= ABS_TOL THEN d ELSE target)
               /\ post_req_delay = shifts[i].after
    /\ successive_req_num = 0

\* C22 (as claimed): in adaptive mode, Stabilize with Retry-After r and
\* current delay d sets the delay to r - 0.20 when r - d >= 0.20 and to
\* d + 0.20 otherwise (subject to the setter's floor clamp and 0.001
\* tolerance), and sets the consecutive-success counter to 0.
C22_StabilizeSetsDelayAndCounter ==
    (delay_adjustment_enabled /\ RetryAfterStep) => StabilizedTo(lastResp.retry_after)

\* what holds of Stabilize: the statement of C22 for the calls in which
\* _shift_pre_request_delay returns
StabilizeWhenShiftReturns ==
    (delay_adjustment_enabled /\ RetryAfterStep /\ result.err # "ZeroDivisionError")
        => StabilizedTo(lastResp.retry_after)

\* the update_statistics calls of the latest step
StatsCalls == HookCalls(trace, "update_statistics")

\* C23 (as claimed): on a response the sample window is updated and RPM
\* recomputed before the renderer is notified, so that the RPM handed to
\* the renderer for the n-th completion of a batch already includes that
\* completion: unknown for completions 1..5, known from the 6th on, and the
\* value the controller holds after the step.  (A window of n < 60 samples
\* is that of the n-th completion; the 0 of reinit counts as unknown.)
C23_RpmHandedIncludesCompletion ==
    (lastOp = "responds" /\ Len(samples) < SAMPLES_MAX_LEN) =>
        /\ Len(StatsCalls) = 1
        /\ Len(samples) <= RPM_MIN_SAMPLES => rpm_unknown(StatsCalls[1].rpm)
        /\ Len(samples) > RPM_MIN_SAMPLES =>
               /\ StatsCalls[1].rpm.known
               /\ StatsCalls[1].rpm = rpm

\* what holds of a completion: the renderer is handed the RPM the controller
\* held before the step, that of the completion before
RpmHandedIsPrevious ==
    [][lastOp' = "responds" =>
          /\ Len(StatsCalls') = 1
          /\ StatsCalls'[1].rpm = rpm
          /\ StatsCalls'[1].ok = lastResp'.ok
          /\ StatsCalls'[1].a = lastResp'.size]_vars

\* the order of a transport failure of attempt n with backoff b: the attempt
\* is announced, the failure reported, the sleep announced, the backoff
\* slept with ticks of strictly decreasing seconds left, the sleep closed
FailureSequence(tr, n, b) ==
    /\ Len(tr) = 5
    /\ tr[1] = Hook("before_request_attempt", n)
    /\ tr[2] = Hook("on_request_failure", n)
    /\ tr[3] = Hook("before_sleeping", b)
    /\ tr[4] = Hook("_sleep", b)
    /\ tr[5] = Hook("after_sleeping", 0)
    /\ LET ticks == HookCalls(Sleep(b), "sleep_iterator")
       IN  /\ \A i, j \in DOMAIN ticks : i < j => ticks[i].a > ticks[j].a
           /\ \A i \in DOMAIN ticks : ticks[i].a <= b
           /\ SleepTotal(Sleep(b)) = b

\* the backoff of the schedule for attempt n: [0.5, 1.0, 11.2, ...][n]
RetrySchedule(n) ==
    IF n + 1 \in DOMAIN DELAY_TRANSPORT_FAILURE_SEC
    THEN DELAY_TRANSPORT_FAILURE_SEC[n + 1]
    ELSE DELAY_TRANSPORT_FAILURE_SEC[Len(DELAY_TRANSPORT_FAILURE_SEC)]

\* C24 (as claimed): on every transport failure of attempt n the controller
\* notifies on_request_failure(n), then before_sleeping(backoff) with the
\* backoff of the schedule for n in adaptive mode, sleeps the backoff with
\* sleep_iterator ticks of strictly decreasing seconds left, notifies
\* after_sleeping, and only then starts attempt n + 1 with
\* before_request_attempt(n + 1); every before_sleeping of a transport
\* failure is matched by an after_sleeping before the next attempt.
C24_TransportFailureOrder ==
    /\ [](lastOp = "raises" =>
            /\ Len(trace) >= 3
            /\ FailureSequence(trace, attempt_num, trace[3].a)
            /\ delay_adjustment_enabled =>
                   FailureSequence(trace, attempt_num, RetrySchedule(attempt_num))
            /\ Len(HookCalls(trace, "before_sleeping"))
                 = Len(HookCalls(trace, "after_sleeping")))
    /\ [][(lastOp = "raises" /\ lastOp' \in {"raises", "responds"}) =>
             trace'[1] = Hook("before_request_attempt", attempt_num + 1)]_vars

\* what holds of a transport failure: the statement of C24 for the attempts
\* the schedule has an entry for (all but the 21st), and for every attempt
\* in non-adaptive mode with the static backoff
TransportFailureOrderWithinSchedule ==
    /\ [](lastOp = "raises" /\ (attempt_num <= RETRY_MAX_NUM \/ ~delay_adjustment_enabled) =>
            /\ FailureSequence(trace, attempt_num,
                   IF delay_adjustment_enabled THEN RetrySchedule(attempt_num)
                   ELSE DELAY_TRANSPORT_FAILURE_STATIC_SEC)
            /\ successive_req_num = 0)
    /\ [][(lastOp = "raises" /\ lastOp' \in {"raises", "responds"}) =>
             trace'[1] = Hook("before_request_attempt", attempt_num + 1)]_vars

\* the position of the first call of hook h in a trace (0 when there is none)
FirstCall(tr, h) ==
    IF HasHook(tr, h) THEN CHOOSE i \in DOMAIN tr :
                               tr[i].h = h /\ \A j \in 1 .. i - 1 : tr[j].h # h
    ELSE 0

C26_FailureResetsCounterOnly ==
    [][lastOp' = "raises" =>
          /\ successive_req_num' = 0
          /\ post_req_delay' = post_req_delay
          /\ samples' = samples
          /\ rpm' = rpm
          /\ req_num' = req_num
          /\ delay_adjustment_enabled' = delay_adjustment_enabled
          /\ shifts' = <<>>
          /\ ~DelayChangeNotified(trace')]_vars

\* C26 witness: the first attempt of the second request failed after the
\* first request had completed: the counter it had raised is back at 0, the
\* delay Stabilize had set and the window are as they were
C26_Witness ==
    /\ delay_adjustment_enabled
    /\ lastOp = "raises"
    /\ req_num = 2
    /\ attempt_num = 1
    /\ ~IsRateLimited(lastResp)
    /\ Len(samples) >= 2
    /\ post_req_delay > 0
    /\ successive_req_num = 0

-----------------------------------------------------------------------------
(* sgr.py.  A text is a sequence of characters, as in util/io.py; the
   control characters are the elements "ESC" (\033), "CR" (\r) and "LF"
   (\n), each one character of the text. *)
CONTROL_CHARACTER == "ESC"
INTRODUCER == "["
SEPARATOR == ";"
TERMINATOR == "m"
CARRIAGE_RETURN == "CR"
LINE_FEED == "LF"

\* SEPARATOR.join([str(param) for param in params])
RECURSIVE JoinParams(_)
JoinParams(params) ==
    IF params = <<>> THEN <<>>
    ELSE IF Len(params) = 1 THEN IntText(params[1])
    ELSE IntText(params[1]) \o <<SEPARATOR>> \o JoinParams(Tail(params))

\* str(SGRSequence(*params))
SGRSequence(params) ==
    <<CONTROL_CHARACTER, INTRODUCER>> \o JoinParams(params) \o <<TERMINATOR>>

FMT_RESET == SGRSequence(<<0>>)
FMT_BOLD == SGRSequence(<<1>>)
FMT_RED == SGRSequence(<<31>>)
FMT_GREEN == SGRSequence(<<32>>)
FMT_YELLOW == SGRSequence(<<33>>)
FMT_BLUE == SGRSequence(<<34>>)
FMT_CYAN == SGRSequence(<<36>>)
FMT_HI_YELLOW == SGRSequence(<<93>>)

\* the length of the longest prefix of s in [0-9;]*
RECURSIVE ParamsLen(_)
ParamsLen(s) ==
    IF s # <<>> /\ (IsDigit(s[1]) \/ s[1] = SEPARATOR)
    THEN 1 + ParamsLen(Tail(s)) ELSE 0

\* the length of the match of SGR_REGEX, \033\[[0-9;]*m, at the start of s,
\* 0 when there is none (the parameters hold no m, so that the longest run
\* of them is the only candidate)
SgrLen(s) ==
    IF Len(s) >= 3 /\ s[1] = CONTROL_CHARACTER /\ s[2] = INTRODUCER
    THEN LET n == ParamsLen(SubSeq(s, 3, Len(s)))
         IN  IF Len(s) >= n + 3 /\ s[n + 3] = TERMINATOR THEN n + 3 ELSE 0
    ELSE 0

\* the positions at which a match of SGR_REGEX begins in s; no match
\* begins inside another
SgrStarts(s) ==
    {i \in DOMAIN s : s[i] = CONTROL_CHARACTER /\ SgrLen(SubSeq(s, i, Len(s))) > 0}

\* the positions of s outside every match of SGR_REGEX
Visible(s) ==
    LET starts == SgrStarts(s)
    IN  {i \in DOMAIN s :
            \A j \in starts : i < j \/ i >= j + SgrLen(SubSeq(s, j, Len(s)))}

\* SGRRegistry.remove_sgr_seqs(s): SGR_REGEX.sub('', s), match by match
\* from the left
RECURSIVE remove_sgr_seqs(_)
remove_sgr_seqs(s) ==
    LET starts == SgrStarts(s)
    IN  IF starts = {} THEN s
        ELSE LET i == CHOOSE j \in starts : \A k \in starts : j <= k
             IN  SubSeq(s, 1, i - 1)
                 \o remove_sgr_seqs(
                        SubSeq(s, i + SgrLen(SubSeq(s, i, Len(s))), Len(s)))

\* s.replace(old, new) for one-character old and new
Replace(s, old, new) == [i \in DOMAIN s |-> IF s[i] = old THEN new ELSE s[i]]

\* c * n
Repeat(c, n) == [i \in 1 .. n |-> c]

(* The terminal.  A control sequence occupies no column, a carriage return
   and a line feed put the cursor in the first column, every other
   character advances it by one; the line is not wrapped. *)
CursorAfter(col, s) ==
    LET shown == Visible(s)
        returns == {i \in shown : s[i] \in {CARRIAGE_RETURN, LINE_FEED}}
        last == IF returns = {} THEN 0
                ELSE CHOOSE i \in returns : \A j \in returns : j <= i
    IN  (IF last = 0 THEN col ELSE 0) + Cardinality({i \in shown : i > last})

\* shutil.get_terminal_size().columns of the model
TERMINAL_COLUMNS == 80
get_terminal_width == TERMINAL_COLUMNS - 2

-----------------------------------------------------------------------------
(* req_seq_renderer.py, low-level output.  A renderer call is a chain of
   steps over io: r is the renderer's attributes, out what the call has
   printed so far, columns the columns of the status line that it has
   written, each with its name and its text. *)
INDENT == Blanks(3)
PLACEHOLDER == "@"

Begin(r) == [r |-> r, out |-> <<>>, columns |-> <<>>, returned |-> NoFragment]

\* _print(s, cache)
renderer_print(io, s, cache) ==
    LET printed == Replace(s, PLACEHOLDER, " ")
    IN  [io EXCEPT
            !.r.current_line_cache = IF cache THEN @ \o s ELSE @,
            !.r.cursor_x = @ + Len(remove_sgr_seqs(printed)),
            !.r.render_phase = 1,
            !.out = @ \o printed]

\* the attributes of a fresh line, for _persist_line and _reset_line
FreshLine(r) ==
    [r EXCEPT !.current_line_cache = <<>>,
              !.cursor_x = 0,
              !.cursor_y_estim = @ + 1,
              !.render_phase = 0]

\* _persist_line()
persist_line(io) ==
    [io EXCEPT !.r = FreshLine(@), !.out = @ \o <<LINE_FEED>>]

\* _reset_line()
reset_line(io) ==
    [io EXCEPT !.r = FreshLine(@),
               !.out = @ \o <<CARRIAGE_RETURN>> \o Repeat(" ", get_terminal_width)
                         \o <<CARRIAGE_RETURN>>]

-----------------------------------------------------------------------------
(* ExpiringFragment and RenderQueue.  A time-to-live and a frame duration
   are counts of 1e-4 s; the frame duration is the time since the queue's
   previous frame, which the clock gives. *)
SECOND == 10000
MARKER_TTL == 3 * SECOND

\* ExpiringFragment.visible: not isclose(.0, duration_sec, abs_tol=1e-3)
visible(fragment) == fragment.duration_sec > ABS_TOL

\* (mutant) no max(0.0, ...): the time-to-live falls below zero
fragment_iterate_NoFloor(fragment, frame_duration_sec) ==
    [fragment EXCEPT !.duration_sec = @ - frame_duration_sec]

\* ExpiringFragment.iterate(frame_duration_sec), the fragment afterwards
fragment_iterate(fragment, frame_duration_sec) ==
    [fragment EXCEPT !.duration_sec = Max(0, @ - frame_duration_sec)]

\* ExpiringFragment(text, duration_sec): the constructor ends in iterate(0)
ExpiringFragment(text, duration_sec) ==
    fragment_iterate([text |-> text, duration_sec |-> duration_sec], 0)

\* RenderQueue.iterate(pop), frame_duration_sec after the previous frame:
\* the queue afterwards and the item returned
queue_iterate(queue, pop, frame_duration_sec) ==
    IF queue = <<>> THEN [queue |-> queue, item |-> NoFragment]
    ELSE LET head == fragment_iterate(queue[1], frame_duration_sec)
         IN  IF pop /\ ~visible(head)
             THEN [queue |-> Tail(queue), item |-> head]
             ELSE [queue |-> <<head>> \o Tail(queue), item |-> head]

-----------------------------------------------------------------------------
(* The seven columns of the status line and _render. *)
PROGRESS_BAR_SIZE == 5

Column(io, name, s) ==
    [renderer_print(io, s, TRUE) EXCEPT
        !.columns = @ \o <<[name |-> name, text |-> s]>>]

\* _render_introducer()
render_introducer(io) ==
    LET introducer == IF io.r.cursor_y_estim % 2 = 0 THEN ">" ELSE " "
    IN  Column(io, "introducer",
               SGRSequence(<<97>>) \o <<introducer>> \o FMT_RESET \o <<" ">>)

\* _render_request_id()
render_request_id(io) ==
    LET request_tpl == <<"#">> \o IntText(io.r.request_num)
        retried == io.r.attempt_num > 1
        attempt_fmt == IF retried THEN FMT_RED \o FMT_BOLD ELSE <<>>
        attempt_marker == IF retried THEN "R" ELSE PLACEHOLDER
        wait_marker == PLACEHOLDER
    IN  Column(io, "request_id",
               SGRSequence(<<1, 97>>) \o AlignRight(request_tpl, 3) \o FMT_RESET
               \o attempt_fmt \o AlignRight(<<attempt_marker>>, 2)
               \o (IF attempt_fmt # <<>> THEN FMT_RESET ELSE <<>>)
               \o AlignRight(<<wait_marker>>, 2))

\* _render_request_status(status_code, request_ok); no status code is the
\* empty text
render_request_status(io, status_code, request_ok) ==
    LET status_str == IF status_code # <<>> THEN AlignLeft(status_code, 3)
                      ELSE <<"n", "/", "a">>
        status_pad_len ==
            IF status_code # <<>> /\ Len(status_str) > 3
            THEN Max(0, Len(INDENT) - (Len(status_str) - 3))
            ELSE Len(INDENT)
        status_fmt == IF status_code = <<>> THEN FMT_HI_YELLOW
                      ELSE IF request_ok THEN FMT_GREEN ELSE FMT_RED
    IN  Column(io, "request_status",
               SubSeq(INDENT, 1, status_pad_len)
               \o status_fmt \o status_str \o FMT_RESET \o INDENT)

\* f'{AutoFloat(num / den):<{max_len}f}'
AutoFloatLeft(num, den, max_len) ==
    AlignLeft(FixedText(num, den, AutoFloatDecimals(num, den, max_len)), max_len)

\* _progress_available
progress_available(r) ==
    r.request_progress_perc.known /\ r.request_progress_perc.num > 0

\* BackgroundProgressBar.format() after update(source_str, ratio), with the
\* indicator of 5 characters and no indent that reinit() sets; the ratio
\* is num / den
progress_bar_format(source_str, num, den) ==
    LET ratio_num == Max(0, IF num > den THEN den ELSE num)
        filled == (ratio_num * PROGRESS_BAR_SIZE) \div den
        left_part_len == Max(0, filled)
        cut == IF left_part_len < Len(source_str) THEN left_part_len
               ELSE Len(source_str)
        left_part == SubSeq(source_str, 1, cut)
        right_part == SubSeq(source_str, cut + 1, Len(source_str))
        right_part_len == PROGRESS_BAR_SIZE - left_part_len
    IN  SGRSequence(<<34, 1>>) \o AlignRight(left_part, left_part_len)
        \o FMT_RESET \o SGRSequence(<<>>)
        \o AlignLeft(right_part, right_part_len) \o FMT_RESET

\* _render_progress_bar()
render_progress_bar(io) ==
    LET perc == io.r.request_progress_perc
        progress_str ==
            IF progress_available(io.r)
            THEN progress_bar_format(
                     AutoFloatLeft(perc.num, perc.den, 4) \o <<"%">>,
                     perc.num, perc.den * 100)
            ELSE SGRSequence(<<37>>) \o <<"-", "-", "-", " ", "%">> \o FMT_RESET
    IN  Column(io, "progress_bar", progress_str \o INDENT)

\* re.sub(r'\S', '-', text)
Dashes(text) == [i \in DOMAIN text |-> IF text[i] = " " THEN " " ELSE "-"]

\* re.sub(r'\d', '-', text)
DigitDashes(text) == [i \in DOMAIN text |-> IF IsDigit(text[i]) THEN "-" ELSE text[i]]

\* minutes * 60, in tenths of a second
SecondsOf(minutes) == (minutes.num * 60 * TENTHS) \div minutes.den

\* _render_eta()
render_eta(io) ==
    LET eta_available == io.r.minutes_left.known
        eta_fmt == IF eta_available THEN <<>> ELSE SGRSequence(<<37>>)
        eta_str == IF eta_available
                   THEN Strip(fmt_time_delta(SecondsOf(io.r.minutes_left)))
                   ELSE Dashes(fmt_time_delta(10 * 60 * TENTHS))
    IN  Column(io, "eta",
               eta_fmt \o <<"E", "T", "A", " ">> \o AlignLeft(eta_str, 6) \o INDENT \o FMT_RESET)

\* _rpm_available
rpm_available(r) == r.rpm_cached.known /\ r.rpm_cached.num > 0

\* _render_rpm(); frame_duration_sec is the time since the frame that
\* _render began with
render_rpm(io, frame_duration_sec) ==
    LET shown == queue_iterate(io.r.rpm_marker_queue, TRUE, frame_duration_sec)
        rpm_prefix == shown.item.text
        rpm_str ==
            IF rpm_available(io.r)
            THEN LET number == Strip(AutoFloat(io.r.rpm_cached.num, io.r.rpm_cached.den, 4))
                     justified == AlignRight(<<"*">> \o number, 5)
                     star == CHOOSE i \in DOMAIN justified : justified[i] = "*"
                 IN  SubSeq(justified, 1, star - 1) \o rpm_prefix
                     \o SubSeq(justified, star + 1, Len(justified))
            ELSE DigitDashes(AutoFloat(10, 1, 4))
        rpm_fmt == IF rpm_available(io.r) THEN <<>> ELSE SGRSequence(<<37>>)
        after == IF rpm_available(io.r)
                 THEN [io EXCEPT !.r.rpm_marker_queue = shown.queue,
                                 !.returned = shown.item]
                 ELSE io
    IN  Column(after, "rpm",
               rpm_fmt \o AlignRight(rpm_str, 5) \o FMT_RESET \o <<" ">>
               \o rpm_fmt \o <<"R", "P", "M">> \o FMT_RESET \o INDENT)

\* _render_size()
render_size(io) ==
    Column(io, "size",
           AlignRight(fmt_sizeof(Size(io.r.response_size_sum, 0)), 8) \o INDENT)

\* the columns in the order _render writes them
STATUS_LINE == <<"introducer", "request_id", "request_status",
                 "progress_bar", "eta", "rpm", "size">>

\* (mutant) the RPM column is written before the ETA column
render_RpmBeforeEta(io, request_ok, status_code, frames) ==
    LET iterated == [io EXCEPT !.r.rpm_marker_queue =
                         queue_iterate(@, FALSE, frames[1]).queue]
        written ==
            render_size(
             render_eta(
              render_rpm(
               render_progress_bar(
                render_request_status(
                 render_request_id(
                  render_introducer(iterated)),
                 status_code, request_ok)),
               frames[2])))
        composed == [written EXCEPT !.r.render_phase = 2]
    IN  IF composed.r.request_num % 10 = 0 THEN persist_line(composed)
        ELSE composed

\* (mutant) the line is persisted after every render
render_PersistsEveryLine(io, request_ok, status_code, frames) ==
    LET iterated == [io EXCEPT !.r.rpm_marker_queue =
                         queue_iterate(@, FALSE, frames[1]).queue]
        written ==
            render_size(
             render_rpm(
              render_eta(
               render_progress_bar(
                render_request_status(
                 render_request_id(
                  render_introducer(iterated)),
                 status_code, request_ok))),
              frames[2]))
    IN  persist_line([written EXCEPT !.r.render_phase = 2])

\* _render(request_ok, status_code); frames are the durations of the two
\* frames of the marker queue: since its previous frame, and from there to
\* the RPM column
render(io, request_ok, status_code, frames) ==
    LET iterated == [io EXCEPT !.r.rpm_marker_queue =
                         queue_iterate(@, FALSE, frames[1]).queue]
        written ==
            render_size(
             render_rpm(
              render_eta(
               render_progress_bar(
                render_request_status(
                 render_request_id(
                  render_introducer(iterated)),
                 status_code, request_ok))),
              frames[2]))
        composed == [written EXCEPT !.r.render_phase = 2]
    IN  IF composed.r.request_num % 10 = 0 THEN persist_line(composed)
        ELSE composed

-----------------------------------------------------------------------------
(* The statistics and the hooks of the renderer. *)

\* (mutant) no min(1.0, ...): the percentage is not clamped
update_statistics_NoClamp(r, response_ok, size_b, rpm_) ==
    LET counted == IF response_ok
                   THEN [r EXCEPT !.response_size_sum = @ + size_b,
                                  !.requests_successful = @ + 1]
                   ELSE r
        cached == IF rpm_.known /\ rpm_.num > 0
                  THEN [counted EXCEPT !.rpm_cached = rpm_]
                  ELSE counted
        estimated == cached.requests_estimated.num
        successful == cached.requests_successful
        \* 100.0 * min(1.0, successful / estimated)
        perc == IF estimated > 0
                THEN Number(100 * successful, estimated)
                ELSE Number(-100 * successful, -estimated)
        progressed == [cached EXCEPT !.request_progress_perc = perc]
    IN  IF cached.requests_estimated.known /\ estimated # 0
        THEN IF cached.rpm_cached.known /\ cached.rpm_cached.num # 0
             THEN [progressed EXCEPT !.minutes_left =
                       Number((estimated - successful) * cached.rpm_cached.den,
                              cached.rpm_cached.num)]
             ELSE progressed
        ELSE cached

\* (mutant) no `if response_ok`: every completion is counted
update_statistics_CountsAll(r, response_ok, size_b, rpm_) ==
    LET counted == [r EXCEPT !.response_size_sum = @ + size_b,
                             !.requests_successful = @ + 1]
        cached == IF rpm_.known /\ rpm_.num > 0
                  THEN [counted EXCEPT !.rpm_cached = rpm_]
                  ELSE counted
        estimated == cached.requests_estimated.num
        successful == cached.requests_successful
        \* 100.0 * min(1.0, successful / estimated)
        perc == IF estimated > 0
                THEN Number(100 * (IF successful < estimated THEN successful
                                   ELSE estimated), estimated)
                ELSE Number(-100 * successful, -estimated)
        progressed == [cached EXCEPT !.request_progress_perc = perc]
    IN  IF cached.requests_estimated.known /\ estimated # 0
        THEN IF cached.rpm_cached.known /\ cached.rpm_cached.num # 0
             THEN [progressed EXCEPT !.minutes_left =
                       Number((estimated - successful) * cached.rpm_cached.den,
                              cached.rpm_cached.num)]
             ELSE progressed
        ELSE cached

\* update_statistics(response_ok, size_b, rpm), the attributes afterwards
update_statistics(r, response_ok, size_b, rpm_) ==
    LET counted == IF response_ok
                   THEN [r EXCEPT !.response_size_sum = @ + size_b,
                                  !.requests_successful = @ + 1]
                   ELSE r
        cached == IF rpm_.known /\ rpm_.num > 0
                  THEN [counted EXCEPT !.rpm_cached = rpm_]
                  ELSE counted
        estimated == cached.requests_estimated.num
        successful == cached.requests_successful
        \* 100.0 * min(1.0, successful / estimated)
        perc == IF estimated > 0
                THEN Number(100 * (IF successful < estimated THEN successful
                                   ELSE estimated), estimated)
                ELSE Number(-100 * successful, -estimated)
        progressed == [cached EXCEPT !.request_progress_perc = perc]
    IN  IF cached.requests_estimated.known /\ estimated # 0
        THEN IF cached.rpm_cached.known /\ cached.rpm_cached.num # 0
             THEN [progressed EXCEPT !.minutes_left =
                       Number((estimated - successful) * cached.rpm_cached.den,
                              cached.rpm_cached.num)]
             ELSE progressed
        ELSE cached

\* the character U+2500 of print_separator
HORIZONTAL_LINE == "HLINE"

\* print_separator()
print_separator(io) ==
    persist_line(renderer_print(
        io, Repeat(HORIZONTAL_LINE,
                   IF get_terminal_width < 80 THEN get_terminal_width ELSE 80),
        TRUE))

\* before_paginated_batch(url)
before_paginated_batch(io, url) ==
    print_separator(persist_line(renderer_print(
        [io EXCEPT !.r.request_url = url],
        <<"D", "a", "t", "a", " ", "p", "r", "o", "v", "i", "d", "e", "r", ":", " ">> \o FMT_BLUE \o url \o FMT_RESET, TRUE)))

\* after_paginated_batch()
after_paginated_batch(io) == persist_line(io)

\* before_request(request_num)
before_request(io, request_num) == [io EXCEPT !.r.request_num = request_num]

\* before_request_attempt(attempt_num)
before_request_attempt(io, attempt) == [io EXCEPT !.r.attempt_num = attempt]

\* (mutant) no check of the render phase: the event is written in any phase
print_event_AnyPhase(io, event_msg, persist, frames) ==
    IF persist
    THEN render(persist_line(renderer_print(reset_line(io), event_msg, TRUE)),
                FALSE, <<>>, frames)
    ELSE renderer_print(io, SGRSequence(<<37>>) \o event_msg \o FMT_RESET \o INDENT,
                        TRUE)

\* print_event(event_msg, persist)
print_event(io, event_msg, persist, frames) ==
    IF persist
    THEN render(persist_line(renderer_print(reset_line(io), event_msg, TRUE)),
                FALSE, <<>>, frames)
    ELSE IF io.r.render_phase # 2 THEN io
    ELSE renderer_print(io, SGRSequence(<<37>>) \o event_msg \o FMT_RESET \o INDENT,
                        TRUE)

\* on_request_failure(attempt_num, msg)
renderer_on_request_failure(io, attempt, msg, frames) ==
    print_event(io, FMT_RED \o <<"E", "r", "r", "o", "r", ":", " ">> \o msg \o FMT_RESET, TRUE, frames)

\* on_request_completion(request_ok, status_code)
renderer_on_request_completion(io, request_ok, status_code, frames) ==
    LET cleared == reset_line(io)
        told == IF request_ok THEN cleared
                ELSE persist_line(renderer_print(
                         cleared,
                         <<"R", "e", "q", "u", "e", "s", "t", " ", "#">> \o IntText(io.r.request_num)
                         \o <<" ", "r", "e", "s", "u", "l", "t", "e", "d", " ", "i", "n", " ", "H", "T", "T", "P", " ", "c", "o", "d", "e", " ">> \o status_code
                         \o <<",", " ", "r", "e", "t", "r", "y", "i", "n", "g", ".", ".", ".">>, TRUE))
    IN  render(told, request_ok, status_code, frames)

\* before_sleeping(delay_sec), the delay in 1e-4 s
before_sleeping(io, delay_sec) ==
    print_event(io, <<"W", "a", "i", "t", "i", "n", "g", " ", "f", "o", "r", " ">> \o FixedText(delay_sec, SECOND, 2)
                    \o <<"s">> \o INDENT, FALSE, <<0, 0>>)

\* after_sleeping()
after_sleeping(io) == [io EXCEPT !.r.current_line_cache = <<>>]

\* (mutant) appendleft for append: the newest marker goes first
on_post_request_delay_update_Prepends(io, delta_sign) ==
    LET format == IF delta_sign = 0 THEN FMT_CYAN
                  ELSE IF delta_sign > 0 THEN FMT_YELLOW ELSE FMT_GREEN
        marker == IF delta_sign = 0 THEN "&"
                  ELSE IF delta_sign > 0 THEN "!" ELSE "^"
    IN  [io EXCEPT !.r.rpm_marker_queue =
            <<ExpiringFragment(
                  format \o FMT_BOLD \o <<marker>> \o SGRSequence(<<22>>),
                  MARKER_TTL)>> \o @]

\* on_post_request_delay_update(delta_sign)
on_post_request_delay_update(io, delta_sign) ==
    LET format == IF delta_sign = 0 THEN FMT_CYAN
                  ELSE IF delta_sign > 0 THEN FMT_YELLOW ELSE FMT_GREEN
        marker == IF delta_sign = 0 THEN "&"
                  ELSE IF delta_sign > 0 THEN "!" ELSE "^"
    IN  [io EXCEPT !.r.rpm_marker_queue =
            Append(@, ExpiringFragment(
                          format \o FMT_BOLD \o <<marker>> \o SGRSequence(<<22>>),
                          MARKER_TTL))]

-----------------------------------------------------------------------------
(* sleep_iterator.  The pattern of req_seq_renderer.py line 203 is
   matched as the regular expression engine matches it: the start of the
   text, the shortest run of any characters, "#", digits, characters that
   are no blanks, blanks, "@" or "R", an SGR sequence or none, blanks, and
   the "@" of the second group; the longest runs of digits, of non-blanks
   and of blanks are tried first, and the SGR sequence before its absence.
   The result is the position of that last "@", 0 when nothing matches. *)
At(s, i) == IF i >= 1 /\ i <= Len(s) THEN s[i] ELSE ""

IsSpace(c) == c \in {" ", CARRIAGE_RETURN, LINE_FEED}

RECURSIVE SpaceRun(_, _)
SpaceRun(s, i) == IF i <= Len(s) /\ IsSpace(s[i]) THEN 1 + SpaceRun(s, i + 1) ELSE 0

RECURSIVE NonSpaceRun(_, _)
NonSpaceRun(s, i) ==
    IF i <= Len(s) /\ ~IsSpace(s[i]) THEN 1 + NonSpaceRun(s, i + 1) ELSE 0

RECURSIVE DigitRun(_, _)
DigitRun(s, i) == IF i <= Len(s) /\ IsDigit(s[i]) THEN 1 + DigitRun(s, i + 1) ELSE 0

\* \s*(@) from position j: a shorter \s* is followed by a blank, never by @
MatchWait(s, j) ==
    LET e == j + SpaceRun(s, j) IN IF At(s, e) = PLACEHOLDER THEN e ELSE 0

\* [@R](?:\033\[[0-9;]*m)?\s*(@) from position m
MatchMarker(s, m) ==
    IF At(s, m) \in {PLACEHOLDER, "R"}
    THEN LET n == SgrLen(SubSeq(s, m + 1, Len(s)))
         IN  IF n > 0 /\ MatchWait(s, m + 1 + n) > 0
             THEN MatchWait(s, m + 1 + n)
             ELSE MatchWait(s, m + 1)
    ELSE 0

\* \S*\s*[@R]... from position p, \S* taking t characters or fewer: the
\* whole run is followed by the blanks, a shorter one by no blank
RECURSIVE MatchNonSpaces(_, _, _)
MatchNonSpaces(s, p, t) ==
    LET m == IF t = NonSpaceRun(s, p) THEN p + t + SpaceRun(s, p + t) ELSE p + t
        e == MatchMarker(s, m)
    IN  IF e > 0 THEN e
        ELSE IF t = 0 THEN 0
        ELSE MatchNonSpaces(s, p, t - 1)

\* \d+\S*... from position h, \d+ taking d digits or fewer
RECURSIVE MatchDigits(_, _, _)
MatchDigits(s, h, d) ==
    IF d < 1 THEN 0
    ELSE LET e == MatchNonSpaces(s, h + d, NonSpaceRun(s, h + d))
         IN  IF e > 0 THEN e ELSE MatchDigits(s, h, d - 1)

\* ^.+?#... with .+? taking k characters or more; the dot matches no line
\* feed; the fewest characters after which the rest matches are taken
MatchLazy(s, k) ==
    LET rest(j) == IF s[j + 1] = "#"
                   THEN MatchDigits(s, j + 2, DigitRun(s, j + 2)) ELSE 0
        taken == {j \in k .. Len(s) - 1 :
                     /\ \A i \in k .. j : s[i] # LINE_FEED
                     /\ rest(j) > 0}
    IN  IF taken = {} THEN 0
        ELSE rest(CHOOSE j \in taken : \A other \in taken : j <= other)

WaitPlaceholder(s) == MatchLazy(s, 1)

\* the glyph of the countdown: seconds_left in 1e-4 s
WaitGlyph(seconds_left) ==
    IF (seconds_left \div SECOND) % 2 = 0
    THEN SGRSequence(<<36, 1>>) \o <<"W">> \o FMT_RESET
    ELSE <<" ">>

\* (mutant) the rewritten line is added to the line cache
sleep_iterator_Caches(io, seconds_left) ==
    LET cache == io.r.current_line_cache
        p == WaitPlaceholder(cache)
        current_line_waiting ==
            IF p = 0 THEN cache
            ELSE SubSeq(cache, 1, p - 1) \o WaitGlyph(seconds_left)
                 \o SubSeq(cache, p + 1, Len(cache))
    IN  renderer_print(io, <<CARRIAGE_RETURN>> \o current_line_waiting, TRUE)

\* sleep_iterator(seconds_left)
sleep_iterator(io, seconds_left) ==
    LET cache == io.r.current_line_cache
        p == WaitPlaceholder(cache)
        current_line_waiting ==
            IF p = 0 THEN cache
            ELSE SubSeq(cache, 1, p - 1) \o WaitGlyph(seconds_left)
                 \o SubSeq(cache, p + 1, Len(cache))
    IN  renderer_print(io, <<CARRIAGE_RETURN>> \o current_line_waiting, FALSE)

-----------------------------------------------------------------------------
(* The renderer under its caller.  The hooks arrive in the order in which
   AdaptiveRequestManager calls them: reinit and before_paginated_batch
   open a batch (history_dumper.py, emoji_dumper.py), each request is
   before_request and then attempts; an attempt is before_request_attempt
   and either a failure (on_request_failure, before_sleeping, the ticks of
   _sleep, after_sleeping) or a completion (update_statistics,
   on_request_completion, the notifications of a shift of the delay, and
   for a 429 before_sleeping and the ticks of _sleep).  caller.at is the
   hook called last. *)
MaxRenderReq == 11
MaxRenderAttempt == 3
\* the requests with 429s, RPM readings and shifts of the delay, and those
\* among them with transport failures and other error statuses; the
\* others complete with 200 at the first attempt
EventfulRequests == {9, 10}
FailingRequests == {9}

\* the estimates reinit is given: None, len(timestamps) of 0 and of 4; a
\* batch with an estimate of 0 has quiet requests only
Estimates == {NoNumber, Number(0, 1), Number(4, 1)}
RenderRpms == {NoRpm, Number(60, 1)}
FrameDurations == {20000}
Frames == {<<d, 0>> : d \in FrameDurations}
RenderStatuses == {<<"2", "0", "0">>, <<"4", "2", "9">>, <<"5", "0", "0">>}
TOO_MANY_REQUESTS == <<"4", "2", "9">>
\* Retry-After of a 429 and the delay in force after it, in 1e-4 s
RenderRetryAfter == 30000
RenderPostDelay == 2000

Eventful ==
    /\ renderer.request_num \in EventfulRequests
    /\ renderer.requests_estimated # Number(0, 1)
Failing ==
    /\ renderer.request_num \in FailingRequests
    /\ renderer.requests_estimated # Number(0, 1)

Call(op, io, at) ==
    /\ renderer' = io.r
    /\ terminal' = [op |-> op, out |-> io.out,
                    col |-> CursorAfter(terminal.col, io.out),
                    columns |-> io.columns, returned |-> io.returned]
    /\ caller' = at
    /\ UNCHANGED <<controller_vars, fmt>>

\* the call of perform_retriable_request has returned, or none was made
Returned ==
    \/ caller.at \in {"before_paginated_batch", "print_event"}
    \/ /\ caller.at \in {"on_request_completion", "optimized"}
       /\ caller.status_code # TOO_MANY_REQUESTS

\* a wait of _sleep has ended: no tick is left
Slept == caller.seconds_left <= SLEEP_SLICE_SEC

CallReinit(requests_estimated) ==
    /\ caller.at \in {"idle", "after_paginated_batch"}
    /\ Call("reinit",
            Begin(renderer_reinit(requests_estimated)),
            [CallerIdle EXCEPT !.at = "reinit"])

CallBeforePaginatedBatch(url) ==
    /\ caller.at = "reinit"
    /\ Call("before_paginated_batch",
            before_paginated_batch(Begin(renderer), url),
            [caller EXCEPT !.at = "before_paginated_batch"])

CallAfterPaginatedBatch ==
    /\ Returned
    /\ Call("after_paginated_batch", after_paginated_batch(Begin(renderer)),
            [caller EXCEPT !.at = "after_paginated_batch"])

CallBeforeRequest ==
    /\ Returned
    /\ renderer.request_num < MaxRenderReq
    /\ Call("before_request",
            before_request(Begin(renderer), renderer.request_num + 1),
            [caller EXCEPT !.at = "before_request", !.attempt = 0])

CallBeforeRequestAttempt ==
    /\ \/ caller.at \in {"before_request", "after_sleeping"}
       \/ caller.at \in {"before_sleeping_429", "sleep_iterator_429"} /\ Slept
    /\ caller.attempt <= RETRY_MAX_NUM
    /\ Call("before_request_attempt",
            before_request_attempt(Begin(renderer), caller.attempt + 1),
            [caller EXCEPT !.at = "before_request_attempt",
                           !.attempt = @ + 1])

CallOnRequestFailure(msg, frames) ==
    /\ caller.at = "before_request_attempt"
    /\ Failing
    /\ caller.attempt < MaxRenderAttempt
    /\ Call("on_request_failure",
            renderer_on_request_failure(Begin(renderer), caller.attempt, msg, frames),
            [caller EXCEPT !.at = "on_request_failure"])

CallUpdateStatistics(response_ok, status_code, size_b, rpm_) ==
    /\ caller.at = "before_request_attempt"
    /\ response_ok = (status_code = <<"2", "0", "0">>)
    /\ Eventful \/ (response_ok /\ rpm_ = NoRpm)
    /\ Failing \/ status_code \in {<<"2", "0", "0">>, TOO_MANY_REQUESTS}
    /\ status_code = TOO_MANY_REQUESTS => caller.attempt = 1
    /\ Call("update_statistics",
            [Begin(renderer) EXCEPT
                !.r = update_statistics(@, response_ok, size_b, rpm_)],
            [caller EXCEPT !.at = "update_statistics", !.ok = response_ok,
                           !.status_code = status_code])

CallOnRequestCompletion(frames) ==
    /\ caller.at = "update_statistics"
    /\ Call("on_request_completion",
            renderer_on_request_completion(Begin(renderer), caller.ok,
                                           caller.status_code, frames),
            [caller EXCEPT !.at = "on_request_completion"])

\* _shift_pre_request_delay, line 181: from _optimize_flow after the
\* completion (delta below 0), from _stabilize_flow after a 429 (above 0)
CallOnPostRequestDelayUpdate(delta_sign) ==
    /\ Eventful
    /\ \/ delta_sign < 0 /\ caller.at = "on_request_completion"
       \/ /\ delta_sign > 0
          /\ caller.at \in {"on_request_completion", "optimized"}
          /\ caller.status_code = TOO_MANY_REQUESTS
    /\ Call("on_post_request_delay_update",
            on_post_request_delay_update(Begin(renderer), delta_sign),
            [caller EXCEPT !.at = IF delta_sign < 0 THEN "optimizing"
                                  ELSE "stabilizing"])

\* _shift_pre_request_delay, line 182: the message of the shift
CallPrintEventPersist(post_req_delay_, frames) ==
    /\ caller.at \in {"optimizing", "stabilizing"}
    /\ Call("print_event_persist",
            print_event(Begin(renderer),
                        <<"S", "e", "t", " ", "p", "o", "s", "t", "-", "r", "e", "q", "u", "e", "s", "t", " ", "d", "e", "l", "a", "y", " ", "t", "o", " ">>
                        \o FixedText(post_req_delay_, SECOND, 2) \o <<"s">>,
                        TRUE, frames),
            [caller EXCEPT !.at = IF @ = "optimizing" THEN "optimized"
                                  ELSE "stabilized"])

\* perform_retriable_request, line 108: the note of completion_fn
CallPrintEvent(note) ==
    /\ caller.at \in {"on_request_completion", "optimized"}
    /\ caller.status_code # TOO_MANY_REQUESTS
    /\ Call("print_event", print_event(Begin(renderer), note, FALSE, <<0, 0>>),
            [caller EXCEPT !.at = "print_event"])

\* on_request_failure, line 117: before the backoff of the attempt
CallBeforeSleeping ==
    /\ caller.at = "on_request_failure"
    /\ LET delay == get_progressing_delay_on_failure(TRUE, caller.attempt)
       IN  Call("before_sleeping", before_sleeping(Begin(renderer), delay),
                [caller EXCEPT !.at = "before_sleeping",
                               !.seconds_left = delay])

\* on_rate_limited_request_fail, lines 141-142: before the wait of a 429,
\* which lasts retry_after_sec and the delay in force
CallBeforeSleepingRateLimited(retry_after_sec, post_req_delay_) ==
    /\ caller.at \in {"on_request_completion", "stabilized"}
    /\ caller.status_code = TOO_MANY_REQUESTS
    /\ Call("before_sleeping",
            before_sleeping(Begin(renderer), retry_after_sec),
            [caller EXCEPT !.at = "before_sleeping_429",
                           !.seconds_left = retry_after_sec + post_req_delay_])

\* _sleep, lines 186-189: one tick of the countdown
CallSleepIterator ==
    /\ caller.at \in {"before_sleeping", "sleep_iterator",
                      "before_sleeping_429", "sleep_iterator_429"}
    /\ ~Slept
    /\ Call("sleep_iterator", sleep_iterator(Begin(renderer), caller.seconds_left),
            [caller EXCEPT
                !.at = IF @ \in {"before_sleeping", "sleep_iterator"}
                       THEN "sleep_iterator" ELSE "sleep_iterator_429",
                !.seconds_left = @ - SLEEP_SLICE_SEC])

\* on_request_failure, line 121
CallAfterSleeping ==
    /\ caller.at \in {"before_sleeping", "sleep_iterator"}
    /\ Slept
    /\ Call("after_sleeping", after_sleeping(Begin(renderer)),
            [caller EXCEPT !.at = "after_sleeping"])

NextRender ==
    \/ \E e \in Estimates : CallReinit(e)
    \/ CallBeforePaginatedBatch(<<"u">>)
    \/ CallAfterPaginatedBatch
    \/ CallBeforeRequest
    \/ CallBeforeRequestAttempt
    \/ \E f \in Frames : CallOnRequestFailure(<<"r", "e", "s", "e", "t">>, f)
    \/ \E s \in RenderStatuses, r \in RenderRpms :
           CallUpdateStatistics(s = <<"2", "0", "0">>, s, BodySize, r)
    \/ \E f \in Frames : CallOnRequestCompletion(f)
    \/ \E d \in {-1, 1} : CallOnPostRequestDelayUpdate(d)
    \/ \E f \in Frames : CallPrintEventPersist(RenderPostDelay, f)
    \/ CallPrintEvent(<<"o", "k">>)
    \/ CallBeforeSleeping
    \/ CallBeforeSleepingRateLimited(RenderRetryAfter, RenderPostDelay)
    \/ CallSleepIterator
    \/ CallAfterSleeping

SpecRender == Init /\ [][NextRender]_vars

-----------------------------------------------------------------------------
(* Claims on the renderer: the phases, the newlines, the countdown and the
   cursor column. *)

\* the names and the joined texts of the columns a call has written
ColumnNames(columns) == [i \in DOMAIN columns |-> columns[i].name]

RECURSIVE ColumnTexts(_)
ColumnTexts(columns) ==
    IF columns = <<>> THEN <<>>
    ELSE columns[1].text \o ColumnTexts(Tail(columns))

\* the call has composed the status line: the seven columns in their order
FullRender(t) == ColumnNames(t.columns) = STATUS_LINE

\* C27: the render phase is 0, 1 or 2; in phase 0 the line cache is empty
\* and the virtual cursor column is 0; phase 2 is entered only at the end
\* of a render that wrote all seven columns in the fixed order, and while
\* the phase is 2 the line cache holds that status line: it is the seven
\* texts when the phase is entered, and it is unchanged while the phase
\* stays 2.
C27_RenderPhases ==
    /\ [](/\ renderer.render_phase \in {0, 1, 2}
          /\ renderer.render_phase = 0 =>
                 /\ renderer.current_line_cache = <<>>
                 /\ renderer.cursor_x = 0)
    /\ [][renderer'.render_phase = 2 =>
              \/ /\ FullRender(terminal')
                 /\ renderer'.current_line_cache = ColumnTexts(terminal'.columns)
              \/ /\ renderer.render_phase = 2
                 /\ terminal'.out = <<>>
                 /\ renderer'.current_line_cache = renderer.current_line_cache
                 /\ renderer.current_line_cache # <<>>]_vars

\* a line has been composed and stays on the terminal: phase 2 with the
\* seven columns in the cache, after the render of a persistent event
C27_Witness ==
    /\ renderer.render_phase = 2
    /\ terminal.op = "print_event_persist"
    /\ FullRender(terminal)
    /\ renderer.current_line_cache = ColumnTexts(terminal.columns)

\* the newlines a call has printed
Newlines(out) == Len(SelectSeq(out, LAMBDA c : c = LINE_FEED))

\* the calls between the start and the end of a batch
InBatch == terminal.op \notin {"init", "reinit", "before_paginated_batch",
                               "after_paginated_batch"}

\* the call printed a message that is persisted: a transport failure, a
\* completion that is not ok, a change of the delay
PersistedMessage ==
    \/ terminal.op \in {"on_request_failure", "print_event_persist"}
    \/ terminal.op = "on_request_completion" /\ ~caller.ok

\* the call rendered the status line of a request whose ordinal is a
\* multiple of 10
PeriodicPersist == FullRender(terminal) /\ renderer.request_num % 10 = 0

\* C28: between batch start and batch end a call emits a newline only for
\* a persisted message (transport failure, non-ok completion, delay
\* change) and at the end of a render when the request ordinal is a
\* multiple of 10, one newline for each; the ok completion of a request
\* whose ordinal is no multiple of 10 emits none, and rewrites the live
\* line from its first column.
C28_NewlinesOnlyWhenPersisting ==
    InBatch =>
        /\ Newlines(terminal.out) =
               (IF PersistedMessage THEN 1 ELSE 0)
               + (IF PeriodicPersist THEN 1 ELSE 0)
        /\ PeriodicPersist => terminal.out[Len(terminal.out)] = LINE_FEED
        /\ (/\ terminal.op = "on_request_completion"
            /\ caller.ok
            /\ renderer.request_num % 10 # 0) =>
               /\ Newlines(terminal.out) = 0
               /\ terminal.out[1] = CARRIAGE_RETURN
               /\ terminal.col = renderer.cursor_x

\* an ok completion whose ordinal is a multiple of 10 has persisted its
\* line, after ok completions that persisted none
C28_Witness ==
    /\ terminal.op = "on_request_completion"
    /\ caller.ok
    /\ renderer.request_num = 10
    /\ renderer.cursor_y_estim > 10
    /\ Newlines(terminal.out) = 1

\* a step that is one countdown tick
Tick == terminal'.op = "sleep_iterator" /\ caller' # caller

\* the position of the wait placeholder in a text: the last placeholder
\* the request id column has written, 0 when the text has none
LastPlaceholder(text) ==
    LET at == {i \in DOMAIN text : text[i] = PLACEHOLDER}
    IN  IF at = {} THEN 0 ELSE CHOOSE i \in at : \A j \in at : j <= i

\* the character shown in place of the wait placeholder
Glyph(seconds_left) == IF (seconds_left \div SECOND) % 2 = 0 THEN "W" ELSE " "

\* what a tick shows of the cached line: the glyph in place of the wait
\* placeholder, every other character as the render printed it
TickShows(cached, seconds_left) ==
    [i \in DOMAIN cached |->
        IF i = LastPlaceholder(cached) THEN Glyph(seconds_left)
        ELSE IF cached[i] = PLACEHOLDER THEN " "
        ELSE cached[i]]

\* C29: a countdown tick leaves the line cache, the statistics and the
\* marker queue unchanged (of the renderer's attributes only the cursor
\* column and the phase may differ), and what it rewrites, from the first
\* column, has the visible width of the cached line: the wait placeholder
\* is shown as one character, W when the truncated seconds left are even
\* and a blank when odd, and every other visible character is in its place.
C29_TickKeepsLine ==
    [][Tick =>
          /\ renderer' = [renderer EXCEPT
                              !.cursor_x = renderer'.cursor_x,
                              !.render_phase = renderer'.render_phase]
          /\ terminal'.out # <<>>
          /\ terminal'.out[1] = CARRIAGE_RETURN
          /\ remove_sgr_seqs(Tail(terminal'.out)) =
                 TickShows(remove_sgr_seqs(renderer.current_line_cache),
                           caller.seconds_left)]_vars

\* a tick has shown the glyph in a cached status line
C29_Witness ==
    /\ terminal.op = "sleep_iterator"
    /\ LastPlaceholder(renderer.current_line_cache) > 0
    /\ \E i \in DOMAIN terminal.out : terminal.out[i] = "W"

\* C30 (as claimed): after any sequence of renderer calls the virtual
\* cursor column is the number of visible characters on the live line,
\* which is the column the terminal's cursor is in; no escape sequence and
\* no carriage return counts toward it, also after countdown ticks and
\* after after_sleeping.
C30_CursorColumn == renderer.cursor_x = terminal.col

\* C30, without the ticks: every call other than a countdown tick moves
\* the virtual column as the terminal's cursor moves, or begins a fresh
\* line and leaves the two equal
CursorColumnExceptTicks ==
    [][terminal'.op # "sleep_iterator" =>
          \/ renderer'.cursor_x - terminal'.col = renderer.cursor_x - terminal.col
          \/ renderer'.cursor_x = terminal'.col]_vars

\* C30, the ticks: a tick adds the carriage return and the whole line to
\* the virtual column, while the terminal's cursor ends where the line ends
TickCountsLineAgain ==
    [][Tick =>
          /\ renderer'.cursor_x = renderer.cursor_x + 1
                 + Len(remove_sgr_seqs(renderer.current_line_cache))
          /\ terminal'.col = Len(remove_sgr_seqs(renderer.current_line_cache))]_vars

-----------------------------------------------------------------------------
(* ExpiringFragment and RenderQueue on their own.  Markers are appended as
   on_post_request_delay_update appends them, the queue is cleared as
   reinit clears it, and frames are iterated as _render iterates them:
   RenderQueueManager.iterate without pop (also called by
   request_simulator.py, line 67), RenderQueue.iterate(pop=True) from
   _render_rpm.  The duration of a frame is what the clock gives; the
   durations of the model bring a time-to-live to either side of the
   tolerance of isclose (10 and 11 in 1e-4 s). *)
MaxQueueLen == 2
QueueFrames == {0, SECOND, 2 * SECOND - ABS_TOL - 1, 2 * SECOND - ABS_TOL,
                3 * SECOND - ABS_TOL}

QueueCall(op, r, item) ==
    /\ renderer' = r
    /\ terminal' = [NoOutput EXCEPT !.op = op, !.col = terminal.col,
                                    !.returned = item]
    /\ UNCHANGED <<controller_vars, fmt>>

\* on_post_request_delay_update(delta_sign): from _optimize_flow with a
\* delta below 0, from _stabilize_flow with one above 0, and from
\* request_simulator.py (line 62) also with 0
QueueAppend(delta_sign) ==
    /\ Len(renderer.rpm_marker_queue) < MaxQueueLen
    /\ QueueCall("on_post_request_delay_update",
                 on_post_request_delay_update(Begin(renderer), delta_sign).r,
                 NoFragment)
    /\ caller' = [caller EXCEPT !.at = IF delta_sign < 0 THEN "optimizing"
                                       ELSE IF delta_sign > 0 THEN "stabilizing"
                                       ELSE "simulating"]

\* RenderQueueManager.iterate(): queue.iterate() for the one queue
QueueManagerIterate(frame_duration_sec) ==
    /\ QueueCall("queue_manager_iterate",
                 [renderer EXCEPT !.rpm_marker_queue =
                      queue_iterate(@, FALSE, frame_duration_sec).queue],
                 NoFragment)
    /\ UNCHANGED caller

\* RenderQueue.iterate(pop=True)
QueueIterate(frame_duration_sec) ==
    LET iterated == queue_iterate(renderer.rpm_marker_queue, TRUE,
                                  frame_duration_sec)
    IN  /\ QueueCall("queue_iterate",
                     [renderer EXCEPT !.rpm_marker_queue = iterated.queue],
                     iterated.item)
        /\ UNCHANGED caller

\* RenderQueueManager.clear()
QueueClear ==
    /\ renderer.rpm_marker_queue # <<>>
    /\ QueueCall("queue_manager_clear",
                 [renderer EXCEPT !.rpm_marker_queue = <<>>], NoFragment)
    /\ UNCHANGED caller

NextQueue ==
    \/ \E d \in {-1, 0, 1} : QueueAppend(d)
    \/ \E f \in QueueFrames : QueueManagerIterate(f)
    \/ \E f \in QueueFrames : QueueIterate(f)
    \/ QueueClear

SpecQueue == Init /\ [][NextQueue]_vars

\* Renders keep occurring: the clock advances between the frames of
\* RenderQueueManager.iterate, and _render_rpm iterates the queue in every
\* render once the RPM is known (update_statistics caches it for the rest
\* of the batch).
SpecQueueFair ==
    /\ SpecQueue
    /\ WF_vars(\E f \in QueueFrames \ {0} : QueueManagerIterate(f))
    /\ WF_vars(\E f \in QueueFrames : QueueIterate(f))

-----------------------------------------------------------------------------
(* Claims on ExpiringFragment and RenderQueue. *)

\* the calls that iterate the marker queue
QueueIterated(t) == t.op \in {"queue_manager_iterate", "queue_iterate"}

\* the fragment that was the head of the queue before an iterating call, as
\* it is after the call: still the head, or popped and returned
HeadAfter ==
    IF Len(renderer'.rpm_marker_queue) = Len(renderer.rpm_marker_queue)
    THEN renderer'.rpm_marker_queue[1]
    ELSE terminal'.returned

\* 0.001 s in the unit of the model
MILLISECOND == SECOND \div 1000

\* C31: the remaining time-to-live of an ExpiringFragment is never negative
\* and never increases under iterate; the fragment is visible exactly while
\* more than 0.001 s remain (so iterate(pop=True) pops it exactly when no
\* more than that remains), and a fragment that is invisible is not visible
\* again after a later iterate.
C31_TimeToLiveDecays ==
    /\ [](\A i \in DOMAIN renderer.rpm_marker_queue :
            LET fragment == renderer.rpm_marker_queue[i]
            IN  /\ fragment.duration_sec >= 0
                /\ visible(fragment) <=> fragment.duration_sec > MILLISECOND)
    /\ [][(QueueIterated(terminal') /\ renderer.rpm_marker_queue # <<>>) =>
            /\ HeadAfter.duration_sec >= 0
            /\ HeadAfter.duration_sec <= renderer.rpm_marker_queue[1].duration_sec
            /\ HeadAfter.text = renderer.rpm_marker_queue[1].text
            /\ ~visible(renderer.rpm_marker_queue[1]) => ~visible(HeadAfter)
            /\ terminal'.op = "queue_iterate" =>
                   (Len(renderer'.rpm_marker_queue) < Len(renderer.rpm_marker_queue)
                      <=> HeadAfter.duration_sec <= MILLISECOND)]_vars

\* C31 witness: a frame has left the head exactly 0.001 s, which is no
\* longer visible, and another marker waits behind it
C31_Witness ==
    /\ terminal.op = "queue_manager_iterate"
    /\ Len(renderer.rpm_marker_queue) = 2
    /\ renderer.rpm_marker_queue[1].duration_sec = MILLISECOND
    /\ ~visible(renderer.rpm_marker_queue[1])

\* an iterating call has left all but the head of the marker queue alone:
\* the head has decayed in its place or was popped
HeadOnly(before, after) ==
    \/ before = <<>> /\ after = <<>>
    \/ before # <<>> /\ after = Tail(before)
    \/ /\ before # <<>>
       /\ Len(after) = Len(before)
       /\ Tail(after) = Tail(before)
       /\ after[1].text = before[1].text
       /\ after[1].duration_sec <= before[1].duration_sec

\* C32 (as claimed): a rendered frame decays only the head of the marker
\* queue and leaves every other item, its time-to-live and the order as they
\* were; and a head whose time-to-live is exhausted in a rendered frame is no
\* longer in the queue after the frame.
C32_HeadOnlyAndPopped ==
    /\ [][FullRender(terminal') =>
            HeadOnly(renderer.rpm_marker_queue, renderer'.rpm_marker_queue)]_vars
    /\ [](FullRender(terminal) =>
            \A i \in DOMAIN renderer.rpm_marker_queue :
                visible(renderer.rpm_marker_queue[i]))

\* what holds of the frames of RenderQueue.iterate and of the renders: only
\* the head is touched
OnlyHeadDecays ==
    [][(QueueIterated(terminal') \/ FullRender(terminal')) =>
          HeadOnly(renderer.rpm_marker_queue, renderer'.rpm_marker_queue)]_vars

\* what holds of a rendered frame: the exhausted head has left the queue
\* when the RPM is known, the only case in which _render_rpm iterates the
\* queue with pop=True
ExhaustedHeadPoppedWhenRpmKnown ==
    [](FullRender(terminal) /\ rpm_available(renderer) =>
          \A i \in DOMAIN renderer.rpm_marker_queue :
              visible(renderer.rpm_marker_queue[i]))

\* the glyph of a marker: its text without the SGR sequences
MarkerGlyph(fragment) == remove_sgr_seqs(fragment.text)

\* iterate(pop=True) has popped an exhausted marker
MarkerPopped ==
    /\ terminal.op = "queue_iterate"
    /\ terminal.returned # NoFragment
    /\ ~visible(terminal.returned)

\* the RPM is shown plain: iterate(pop=True) has found the queue empty
PlainRpm ==
    /\ terminal.op = "queue_iterate"
    /\ terminal.returned = NoFragment
    /\ renderer.rpm_marker_queue = <<>>

-----------------------------------------------------------------------------
(* Claims on the statistics of the renderer. *)

\* the visible text of the progress column of a composed status line
ProgressShown(t) == remove_sgr_seqs(t.columns[4].text)

\* the static placeholder of the progress column
ProgressPlaceholder == <<"-", "-", "-", " ", "%">> \o INDENT

\* no expected total: None or 0
NoTotal(r) == ~r.requests_estimated.known \/ r.requests_estimated.num = 0

\* C34: the progress percentage, once computed, is within [0, 100], and is
\* 100 when at least as many requests succeeded as were estimated; it is
\* computed only for a batch with an expected total, the progress bar is
\* shown only then, and with no expected total (None or 0) every status
\* line shows the static placeholder.
C34_ProgressWithinBounds ==
    LET perc == renderer.request_progress_perc
        estimated == renderer.requests_estimated
    IN  /\ perc.known =>
              /\ perc.den > 0
              /\ 0 <= perc.num
              /\ perc.num <= 100 * perc.den
              /\ ~NoTotal(renderer)
              /\ renderer.requests_successful >= estimated.num =>
                     perc.num = 100 * perc.den
              /\ renderer.requests_successful < estimated.num =>
                     perc.num * estimated.num
                       = 100 * renderer.requests_successful * perc.den
        /\ FullRender(terminal) =>
              /\ ProgressShown(terminal) # ProgressPlaceholder => ~NoTotal(renderer)
              /\ NoTotal(renderer) => ProgressShown(terminal) = ProgressPlaceholder

\* C34 witness: six requests of an estimated four have succeeded and the
\* bar, not the placeholder, is on the status line at 100 percent
C34_Witness ==
    /\ FullRender(terminal)
    /\ renderer.requests_estimated = Number(4, 1)
    /\ renderer.requests_successful = 6
    /\ renderer.request_progress_perc.num = 100 * renderer.request_progress_perc.den
    /\ ProgressShown(terminal) = <<"1", "0", "0", " ", "%">> \o INDENT

\* the other case of C34, also reached: a batch with an estimate of 0 shows
\* the placeholder after three completions
ZeroTotalShowsPlaceholder ==
    /\ FullRender(terminal)
    /\ renderer.requests_estimated = Number(0, 1)
    /\ renderer.requests_successful = 3
    /\ ProgressShown(terminal) = ProgressPlaceholder

\* C35: within a batch the cumulative byte count is the sum of the body
\* sizes of the ok responses and the success count is their number: an ok
\* completion adds its size and one, every other call (a completion that is
\* not ok, a 429, a transport failure, a render) leaves both as they are,
\* reinit starts both at 0, and the byte count never decreases within a
\* batch.
C35_BytesAndSuccesses ==
    /\ [](/\ renderer.response_size_sum = renderer.requests_successful * BodySize
          /\ renderer.requests_successful >= 0)
    /\ [][IF terminal'.op = "update_statistics" /\ caller'.ok
          THEN /\ renderer'.response_size_sum = renderer.response_size_sum + BodySize
               /\ renderer'.requests_successful = renderer.requests_successful + 1
          ELSE IF terminal'.op = "reinit"
          THEN /\ renderer'.response_size_sum = 0
               /\ renderer'.requests_successful = 0
          ELSE /\ renderer'.response_size_sum = renderer.response_size_sum
               /\ renderer'.requests_successful = renderer.requests_successful]_vars
    /\ [][terminal'.op # "reinit" =>
            renderer'.response_size_sum >= renderer.response_size_sum]_vars

\* C35 witness: after eight ok responses the ninth request was retried (a
\* transport failure or a 429) and then answered 500, and the statistics
\* still count the eight
C35_Witness ==
    /\ terminal.op = "update_statistics"
    /\ caller.status_code = <<"5", "0", "0">>
    /\ caller.attempt = 2
    /\ renderer.requests_successful = 8
    /\ renderer.response_size_sum = 8 * BodySize

-----------------------------------------------------------------------------
(* SpecThreshold: the long batches of SpecBatches against a server that may
   also answer 429 to the request whose completion is the one on which
   Optimize lowers the delay (the 90th in a row). *)

AtThreshold == ThresholdReached(successive_req_num + 1) /\ attempt_num < MaxRetryAttempt

NextThreshold ==
    \/ \E A \in BOOLEAN : ApplyAppArgs(A)
    \/ Reinit
    \/ req_num < MaxReqSteady /\ PerformBegin
    \/ MayRetry /\ AttemptRaises
    \/ \E resp \in ResponsesBatches, fr \in {-1, 0, 1}, cf \in CompletionFns :
           /\ IsRateLimited(resp) => MayRetry \/ AtThreshold
           /\ AttemptResponds(resp, NextReading(samples), fr, cf)

SpecThreshold == Init /\ [][NextThreshold]_vars

\* C36 (as claimed): handling a 429 response never leaves the post-request
\* delay lower than it was before the response was received, whatever the
\* Retry-After and the counter, also when the response is the completion on
\* which Optimize runs before Stabilize.  (Read for the responses that carry
\* a Retry-After and are handled without an exception.)
C36_RateLimitNeverLowersDelay ==
    [][(/\ lastOp' = "responds"
        /\ IsRateLimited(lastResp')
        /\ lastResp'.retry_after # NoRetryAfter
        /\ pc' # "raised") =>
          post_req_delay' >= post_req_delay]_vars

\* what holds of a 429: the delay is not lowered when the completion is not
\* one on which Optimize lowers it
RateLimitBelowThresholdNeverLowersDelay ==
    [][(/\ lastOp' = "responds"
        /\ IsRateLimited(lastResp')
        /\ ~ThresholdReached(successive_req_num + 1)) =>
          post_req_delay' >= post_req_delay]_vars

\* C37 (as claimed): recomputing the RPM on a completion never fails:
\* whenever the window holds more than 5 samples the newest is strictly
\* later than the oldest, also when completions carry the same reading of
\* time(), and no completion ends in ZeroDivisionError.
C37_RpmNeverFails ==
    /\ Len(samples) > RPM_MIN_SAMPLES => samples[1] - samples[Len(samples)] > 0
    /\ lastOp = "responds" =>
           ~(pc = "raised" /\ result.err = "ZeroDivisionError")

\* what holds of the recomputation: it fails only for a window of more than
\* 5 samples whose newest and oldest readings are the same
RpmFailsOnlyOnEqualReadings ==
    (lastOp = "responds" /\ pc = "raised" /\ result.err = "ZeroDivisionError") =>
        /\ Len(samples) > RPM_MIN_SAMPLES
        /\ samples[1] = samples[Len(samples)]


-----------------------------------------------------------------------------
(* Claims on the countdown and the events of the renderer. *)

\* the line cache holds a status line a tick can patch: the pattern of
\* sleep_iterator finds the wait placeholder in it
HasLineToPatch(cache) == cache # <<>> /\ WaitPlaceholder(cache) > 0

\* C38 (as claimed): whenever a countdown tick is delivered during a
\* backoff or a rate-limit wait, the line cache holds a composed status
\* line with the wait placeholder, so the tick has a line to patch, for
\* every request ordinal, the multiples of 10 included.
C38_TickHasLine ==
    [][Tick => HasLineToPatch(renderer.current_line_cache)]_vars

\* C38, off the multiples of 10: the tick has a line to patch
TickHasLineOffMultiplesOfTen ==
    [][(Tick /\ renderer.request_num % 10 # 0) =>
           HasLineToPatch(renderer.current_line_cache)]_vars

\* C38, at the multiples of 10: the render has persisted the line, the
\* event of before_sleeping was dropped, and the tick rewrites nothing
\* but the carriage return
TickHasNoLineAtMultiplesOfTen ==
    [][(Tick /\ renderer.request_num % 10 = 0) =>
           /\ renderer.current_line_cache = <<>>
           /\ terminal'.out = <<CARRIAGE_RETURN>>]_vars


-----------------------------------------------------------------------------
(* The events of a host.  print_event is a method any host of the renderer
   may call between the hooks of the controller; here a non-persistent
   event is raised before the first attempt, after the completion and
   during the wait of an eventful request whose ordinal is a multiple of
   10: there it meets every render phase, phase 2 before the first attempt,
   phase 0 after the render, phase 1 after an event or a tick. *)
RaiseEvent(note) ==
    /\ Eventful
    /\ renderer.request_num % 10 = 0
    /\ caller.at \in {"before_request", "on_request_completion",
                      "before_sleeping_429", "sleep_iterator_429"}
    /\ Call("raise_event", print_event(Begin(renderer), note, FALSE, <<0, 0>>),
            caller)

NextEvents ==
    \/ NextRender
    \/ RaiseEvent(<<"h", "i">>)

SpecEvents == Init /\ [][NextEvents]_vars

\* a step that raises a non-persistent event: the note of a completion,
\* the message before a sleep, the event of a host
NonPersistentEvent ==
    terminal'.op \in {"print_event", "before_sleeping", "raise_event"}

\* C39: a non-persistent event is written to the live line only when the
\* render phase is 2, and writing it sets the phase to 1 and appends it to
\* the line cache; an event raised in phase 0 or 1 changes nothing on the
\* terminal, in the line cache or in any other attribute of the renderer;
\* and phase 2 is entered only by a completed render, so at most one
\* non-persistent event is appended per completed render.
C39_EventsOnlyInPhaseTwo ==
    /\ [][NonPersistentEvent =>
              IF renderer.render_phase = 2
              THEN /\ terminal'.out # <<>>
                   /\ renderer'.render_phase = 1
                   /\ Len(renderer'.current_line_cache)
                          > Len(renderer.current_line_cache)
                   /\ SubSeq(renderer'.current_line_cache, 1,
                             Len(renderer.current_line_cache))
                          = renderer.current_line_cache
              ELSE /\ terminal'.out = <<>>
                   /\ terminal'.col = terminal.col
                   /\ renderer' = renderer]_vars
    /\ [][(renderer'.render_phase = 2 /\ renderer.render_phase # 2) =>
              FullRender(terminal')]_vars

\* an event was raised in phase 1, on a live line, and nothing was written
C39_Witness ==
    /\ terminal.op = "raise_event"
    /\ terminal.out = <<>>
    /\ renderer.render_phase = 1
    /\ renderer.current_line_cache # <<>>

\* the message before a sleep was written after a completed render
EventWrittenInPhaseTwo ==
    /\ terminal.op = "before_sleeping"
    /\ terminal.out # <<>>
    /\ renderer.render_phase = 1

\* the message before a sleep was dropped in phase 0, after a render that
\* persisted the line
EventDroppedInPhaseZero ==
    /\ terminal.op = "before_sleeping"
    /\ terminal.out = <<>>
    /\ renderer.render_phase = 0


-----------------------------------------------------------------------------
(* Claims on what RenderQueue.iterate returns. *)

\* C40 (as claimed): the RPM column never shows a marker whose time-to-live
\* is exhausted: the fragment RenderQueue.iterate returns to _render_rpm,
\* popped or not, is visible.
C40_NoExpiredMarkerShown ==
    (FullRender(terminal) /\ terminal.returned # NoFragment) =>
        visible(terminal.returned)

\* the RPM column of a rendered line shows the glyph of a marker whose
\* time-to-live is exhausted
ExpiredMarkerShown ==
    /\ FullRender(terminal)
    /\ terminal.returned # NoFragment
    /\ ~visible(terminal.returned)
    /\ LET rpm_column == remove_sgr_seqs(terminal.columns[6].text)
       IN  \E i \in DOMAIN rpm_column :
               <<rpm_column[i]>> = MarkerGlyph(terminal.returned)

\* C40, what holds: a marker returned with its time-to-live exhausted has
\* been popped by that call, so it is shown in one frame and in no later
\* one; a marker that stays in the queue after a frame with pop=True is
\* visible
ExpiredMarkerReturnedOnlyWhenPopped ==
    [][(/\ \/ FullRender(terminal')
           \/ terminal'.op = "queue_iterate"
        /\ terminal'.returned # NoFragment) =>
           IF visible(terminal'.returned)
           THEN /\ renderer'.rpm_marker_queue # <<>>
                /\ renderer'.rpm_marker_queue[1] = terminal'.returned
           ELSE renderer'.rpm_marker_queue = Tail(renderer.rpm_marker_queue)]_vars

=============================================================================
